---- MODULE Spec2Model ----
(***************************************************************************)
(* The NTCP2 establishment handshake of the ire I2P router                 *)
(* (src/transport/ntcp2/handshake/mod.rs): the responder future            *)
(* IBHandshake, the initiator future OBHandshake, the two byte streams     *)
(* that connect them, the wall clock they read, and OBHandshake::new with  *)
(* the RouterInfo address lookup it rests on (src/data/mod.rs).            *)
(*                                                                         *)
(* Bytes are not stored one by one.  A stream is the list of buffers that  *)
(* were handed to write_all (each with its length and what it holds), the  *)
(* number of bytes that have left the writer and the number the reader     *)
(* has taken.  Two reads yield equal bytes exactly when they yield equal   *)
(* descriptors.  The Noise session is its transcript h: a message          *)
(* verifies exactly when it is intact and was written under the            *)
(* transcript the reader holds.                                            *)
(***************************************************************************)
EXTENDS Integers, Sequences, FiniteSets, TLC

\* ------------------------------------------------------------- bounds

\* The padding lengths the random generators draw in the model are 0 and
\* MaxPad (the code draws from 0..15).
MaxPad == 1

\* Number of places at which the stream may cut one write_all buffer.
MaxSplits == 1

\* Largest number of addresses in the peer's RouterInfo.
MaxAddrs == 2

\* The wall clock reads 0 or 500 * MaxClock milliseconds.
MaxClock == 1

\* Number of threads that deliver inbound messages to the handler.
MaxThreads == 2

\* Largest number of calls of MessageHandler::handle in one run.
MaxCalls == 3

\* ---------------------------------------------------------- constants

SESSION_REQUEST_PT_LEN == 16

SESSION_REQUEST_CT_LEN == 32 + SESSION_REQUEST_PT_LEN + 16

SESSION_CREATED_PT_LEN == 16

SESSION_CREATED_CT_LEN == 32 + SESSION_CREATED_PT_LEN + 16

NTCP2_MTU == 65535

\* Bytes Noise adds in front of the payload of message 3 (the encrypted
\* static key and its MAC); the payload's own MAC is counted in sc_len.
SC_STATIC_LEN == 48

\* Length of the shortest serialized RouterInfo.
RI_BASE_LEN == 435

NTCP2_STYLE == "NTCP2"

NTCP_STYLE == "NTCP"

PadLens == {0, MaxPad}

ClockValues == {0, 500 * MaxClock}

\* Lengths of the own RouterInfo: the shortest, the longest whose message 3
\* Noise can still write, the longest OBHandshake::new accepts, and one
\* that is too long.
RiLens == {RI_BASE_LEN, NTCP2_MTU - 64, NTCP2_MTU - 16, NTCP2_MTU}

\* The own RouterInfo, by what the handshake makes of it: its serialized
\* length, whether the parser accepts it and what RouterInfo::verify says of
\* its signature.  One of the shortest does not verify.
OwnRouterInfos ==
    {[len |-> n, wellformed |-> TRUE, verifies |-> TRUE] : n \in RiLens}
        \cup {[len |-> RI_BASE_LEN, wellformed |-> TRUE, verifies |-> FALSE]}

\* -------------------------------------------------------------- streams

Min(a, b) == IF a < b THEN a ELSE b

\* A stream in one direction.  segs: the buffers handed to write_all, in
\* order; flushed: bytes that have left the writer; taken: bytes the reader
\* has consumed; closed: the writing end is gone.
EmptyStream == [segs |-> <<>>, flushed |-> 0, taken |-> 0, closed |-> FALSE]

RECURSIVE SegStart(_, _)
\* Offset in the stream of the first byte of segs[i].
SegStart(segs, i) == IF i <= 1 THEN 0 ELSE SegStart(segs, i - 1) + segs[i - 1].len

\* The empty byte string.
EmptyBytes == [kind |-> "pad", len |-> 0, body |-> [who |-> "empty", off |-> 0]]

\* The n bytes of the stream that start at offset start: a buffer as it was
\* written when the read covers exactly that buffer, otherwise bytes that
\* are no message of the protocol.
BytesAt(segs, start, n) ==
    IF n = 0 THEN EmptyBytes
    ELSE IF \E i \in 1..Len(segs) : SegStart(segs, i) = start /\ segs[i].len = n
         THEN segs[CHOOSE i \in 1..Len(segs) : SegStart(segs, i) = start /\ segs[i].len = n]
         ELSE [kind |-> "raw", len |-> n, body |-> [who |-> "raw", off |-> start]]

\* A pending I/O operation on the connection: read_exact into a buffer of
\* len bytes of which pos are filled, or write_all of a buffer of len bytes
\* of which pos are written.
\* For a write, ct is the length of the ciphertext at the front of the buffer.
ReadExact(n) == [op |-> "read", len |-> n, pos |-> 0, ct |-> 0]

WriteAll(ct, padlen) == [op |-> "write", len |-> ct + padlen, pos |-> 0, ct |-> ct]

NoFuture == [op |-> "none", len |-> 0, pos |-> 0, ct |-> 0]

\* A read_exact that is Ready with its buffer not full while the stream is
\* open: what C4 rules out.
ReadStatusEarly(len, pos, closed) ==
    IF closed /\ pos < len THEN "Eof" ELSE "Ready"

\* A read_exact that takes the end of the stream for success: what C6 rules
\* out.
ReadStatusEofReady(len, pos, closed) ==
    IF pos = len \/ closed THEN "Ready" ELSE "NotReady"

\* The status a poll of read_exact returns once the bytes at hand are moved
\* into its buffer.
ReadStatus(len, pos, closed) ==
    IF pos = len THEN "Ready" ELSE IF closed THEN "Eof" ELSE "NotReady"

\* One poll of a read_exact future f on stream s: it takes what is there, up
\* to what it still needs, and is Ready when the buffer is full, fails on
\* end of stream with the buffer not full, and is NotReady otherwise.
ReadExactPoll(f, s) ==
    LET n == Min(s.flushed - s.taken, f.len - f.pos)
        pos == f.pos + n
    IN [status |-> ReadStatus(f.len, pos, s.closed),
        fut |-> [f EXCEPT !.pos = pos],
        s |-> [s EXCEPT !.taken = s.taken + n],
        bytes |-> BytesAt(s.segs, s.taken + n - f.len, f.len)]

\* The places at which the stream may cut a buffer whose ciphertext has ct
\* bytes: place 0 is the end of the buffer, places 1..MaxSplits+1 divide the
\* ciphertext evenly, the last of them being its end, where the padding
\* starts.
Cuts == 0..(MaxSplits + 1)

CutAt(f, j) == IF j = 0 THEN f.len ELSE (f.ct * j + MaxSplits) \div (MaxSplits + 1)

\* One poll of a write_all future f on stream s, the stream accepting bytes
\* up to its cut place j (or all of them, when j is behind).
WriteAllPoll(f, s, j) ==
    IF s.closed
    THEN [status |-> "Err", fut |-> f, s |-> s]
    ELSE LET pos == IF CutAt(f, j) > f.pos THEN CutAt(f, j) ELSE f.len
         IN [status |-> IF pos = f.len THEN "Ready" ELSE "NotReady",
             fut |-> [f EXCEPT !.pos = pos],
             s |-> [s EXCEPT !.flushed = s.flushed + (pos - f.pos)]]

\* ---------------------------------------------------------- Noise session

\* A session that was taken out of its Option.
NoNoise == [some |-> FALSE, h |-> <<>>]

\* A handshake session: its transcript starts with the responder's static
\* key and the AES key and IV that obfuscate the initiator's ephemeral.
NoiseSession(static, obf) == [some |-> TRUE, h |-> <<[k |-> static, iv |-> obf]>>]

\* snow's read_message on msg, expected to be message kind: it succeeds
\* when msg is an intact message of that kind written under the reader's
\* transcript.
NoiseReadOk(noise, msg, kind) ==
    /\ msg.kind = kind
    /\ msg.body.ok
    /\ msg.body.h = noise.h

\* The session after a message (written or read) is mixed into h.
NoiseMix(noise, kind, pt) == [noise EXCEPT !.h = Append(@, [m |-> kind, d |-> pt])]

\* A set_h_data that mixes nothing: what C26 rules out.
SetHDataSkipped(noise, stage, bytes) == noise

\* set_h_data(stage, bytes): the padding is mixed into h (stage "h2" after
\* message 1, "h3" after message 2).
SetHData(noise, stage, bytes) == [noise EXCEPT !.h = Append(@, [m |-> stage, d |-> bytes.body])]

\* The ciphertext write_message produces for plaintext pt under noise.
NoiseMsg(noise, kind, len, pt) ==
    [kind |-> kind, len |-> len, body |-> [pt |-> pt, h |-> noise.h, ok |-> TRUE]]

\* A sender that announces padding and appends none: what C25 rules out.
PaddingNone(who, n) == EmptyBytes

\* n random bytes appended after a message by who.
Padding(who, n) ==
    IF n = 0 THEN EmptyBytes ELSE [kind |-> "pad", len |-> n, body |-> [who |-> who, off |-> 0]]

\* The buffers one write_all adds to the stream: the ciphertext and, when
\* there is any, the padding behind it.
Written(msg, pad) == IF pad.len = 0 THEN <<msg>> ELSE <<msg, pad>>

\* finalize_ask("siphash"): two secrets derived from the final transcript.
FinalizeAsk(noise) == <<[ask |-> 0, h |-> noise.h], [ask |-> 1, h |-> noise.h]>>

\* The w-th little-endian u64 read from a secret.
ReadU64(ask, w) == [a |-> ask, w |-> w]

\* ------------------------------------------------------------ frame codec

\* frame::gen_session_request: the 16-byte plaintext of message 1, with its
\* fields at their widths (u8 version, u8 padding length, u16 length of
\* message 3; the u32 timestamp holds every value the clock takes here).
GenSessionRequest(ver, padlen, sclen, ts) ==
    [ver |-> ver % 256, padlen |-> padlen % 256, sclen |-> sclen % 65536, ts |-> ts]

\* frame::session_request: the fields of the 16-byte plaintext.  It decodes
\* the layout and judges no field.
SessionRequestParse(pt) ==
    [ok |-> TRUE, ver |-> pt.ver, padlen |-> pt.padlen, sclen |-> pt.sclen, ts |-> pt.ts]

\* frame::gen_session_created: the 16-byte plaintext of message 2.
GenSessionCreated(padlen, ts) == [padlen |-> padlen % 65536, ts |-> ts]

\* frame::session_created: the fields of the 16-byte plaintext.
SessionCreatedParse(pt) == [ok |-> TRUE, padlen |-> pt.padlen, ts |-> pt.ts]

\* frame::gen_session_confirmed into a buffer of buflen bytes: the serialized
\* RouterInfo followed by padlen bytes of padding; BufferTooSmall when that
\* does not fit.
GenSessionConfirmed(ri, padlen, buflen) ==
    IF ri.len + padlen > buflen
    THEN [ok |-> FALSE, sz |-> ri.len + padlen]
    ELSE [ok |-> TRUE, sz |-> ri.len + padlen]

\* frame::session_confirmed: the embedded RouterInfo parses.
SessionConfirmedParse(pt) == pt.ri.wellformed

\* ---------------------------------------------------------- data model

\* A RouterAddress, by what the handshake reads of it: its transport style,
\* what addr() makes of "host" and "port" ("v4", "v6", or "bad" when one is
\* missing or does not parse), and its options "v", "s" and "i" ("none" when
\* absent).
Styles == {NTCP2_STYLE, NTCP_STYLE, "SSU"}

Address(style, host, v, s, i) == [style |-> style, host |-> host, v |-> v, s |-> s, i |-> i]

NoAddress == Address("none", "bad", "none", "none", "none")

\* I2PString::to_csv on the values "v" takes here.
ToCsv(v) == IF v = "1,2" THEN {"1", "2"} ELSE {v}

\* RouterAddress::addr.
Addr(a) == a.host

\* RouterInfo::address: the first address of the style whose endpoint is IPv4
\* and that the filter (a function on addresses) accepts.  addr() is
\* unwrapped for every address of the style, so one that has no endpoint
\* aborts the lookup.
RouterInfoAddress(addrs, style, filter) ==
    LET styled == {i \in 1..Len(addrs) : addrs[i].style = style}
        found == {i \in styled : Addr(addrs[i]) = "v4" /\ filter[addrs[i]]}
    IN IF \E i \in styled : Addr(addrs[i]) = "bad"
       THEN [r |-> "Panic", ra |-> NoAddress]
       ELSE IF found = {}
            THEN [r |-> "None", ra |-> NoAddress]
            ELSE [r |-> "Some", ra |-> addrs[CHOOSE i \in found : \A j \in found : i <= j]]

\* I2P_BASE64.decode of an option value: the bytes it encodes, or an error.
Base64Ok(val) == val # "bad64"

\* The addresses a peer's RouterInfo is built from.
AddrPool ==
    {Address(NTCP2_STYLE, "v4", "2", "kB", "ivB"),
     Address(NTCP_STYLE, "v4", "1,2", "kB", "ivB"),
     Address(NTCP2_STYLE, "v4", "2", "kX", "ivB"),
     Address(NTCP2_STYLE, "v6", "2", "kB", "ivB"),
     Address(NTCP2_STYLE, "v4", "1", "kB", "ivB"),
     Address(NTCP2_STYLE, "v4", "2", "none", "ivB"),
     Address(NTCP2_STYLE, "bad", "2", "kB", "ivB"),
     Address(NTCP2_STYLE, "v4", "2", "bad64", "ivB"),
     Address(NTCP2_STYLE, "v4", "2", "kB", "bad64"),
     Address(NTCP2_STYLE, "v4", "2", "kB", "iv8"),
     Address("SSU", "v4", "none", "none", "none")}

AddrLists == UNION {[1..n -> AddrPool] : n \in 0..MaxAddrs}

\* --------------------------------------------------- OBHandshake::new

\* The filter OBHandshake::new hands to RouterInfo::address.
Ntcp2Filter(ra) ==
    /\ ra.v # "none"
    /\ "2" \in ToCsv(ra.v)
    /\ ra.s # "none"
    /\ ra.i # "none"

\* The address OBHandshake::new selects: NTCP2 first, NTCP when there is none.
SelectAddress(addrs) ==
    LET filter == [ra \in AddrPool |-> Ntcp2Filter(ra)]
        first == RouterInfoAddress(addrs, NTCP2_STYLE, filter)
    IN IF first.r = "None" THEN RouterInfoAddress(addrs, NTCP_STYLE, filter) ELSE first

\* A new that invokes the connect closure before it checks anything: what C10
\* rules out.
DialsFirst(result) == result = result

\* Whether OBHandshake::new invokes the connect closure: it is its last
\* step, behind every return of an error.
Dials(result) == result = "Ok"

\* OBHandshake::new(conn, static_key, own_ri, peer_ri) with the padding length
\* it draws: its result ("Ok", an error, or an abort: "PanicAddr" for
\* addr().unwrap() on an address without an endpoint, "PanicIv" for
\* copy_from_slice of an IV that has not 16 bytes), the address it selected,
\* and for Ok the fields of the handshake.
OBHandshakeNew(own_ri, peer_addrs, sc_padlen) ==
    LET sel == SelectAddress(peer_addrs)
        ra == sel.ra
        gen == GenSessionConfirmed(own_ri, sc_padlen, NTCP2_MTU - 16)
        result ==
            CASE sel.r = "Panic" -> "PanicAddr"
              [] sel.r = "None" -> "NoNtcp2Address"
              [] ~Base64Ok(ra.s) -> "InvalidKey"
              [] ~Base64Ok(ra.i) -> "InvalidIV"
              [] ra.i = "iv8" -> "PanicIv"
              [] ~gen.ok -> "MessageTooLarge"
              [] OTHER -> "Ok"
    IN [result |-> result,
        ra |-> ra,
        noise |-> IF result = "Ok" THEN NoiseSession(ra.s, ra.i) ELSE NoNoise,
        sc_buf |-> IF result = "Ok" THEN [ri |-> own_ri, padlen |-> sc_padlen, len |-> gen.sz]
                   ELSE [ri |-> own_ri, padlen |-> 0, len |-> 0],
        sc_len |-> IF result = "Ok" THEN gen.sz + 16 ELSE 0,
        dials |-> Dials(result)]

\* ----------------------------------------------------------------- state

VARIABLES
    ib,      \* the responder's IBHandshake and the result of its last poll
    ob,      \* the initiator's OBHandshake, the result of new and of its last poll
             \* (path, in both: the states the handshake has been in, in order)
    a2b,     \* the stream from the initiator to the responder
    b2a,     \* the stream from the responder to the initiator
    clock,   \* the wall clock (SystemTime::now), in milliseconds
    link,    \* the connect future: "None", "Dialing", "Up" or "Refused"
    args,    \* the arguments OBHandshake::new will be called with
    data     \* the value of the data module under operation, with the
             \* results of the calls made on it

vars == <<ib, ob, a2b, b2a, clock, link, args, data>>

\* The variables of the handshakes.
hsvars == <<ib, ob, a2b, b2a, clock, link, args>>

NoCodec == [some |-> FALSE, ek0 |-> 0, ek1 |-> 0, eiv |-> 0, dk0 |-> 0, dk1 |-> 0, div |-> 0,
            hs |-> <<>>]

\* The states of IBHandshakeState in the order the responder goes through them.
IBOrder == <<"SessionRequest", "SessionRequestPadding", "SessionCreated", "SessionConfirmed">>

\* The states of OBHandshakeState in the order the initiator goes through them.
OBOrder == <<"Connecting", "SessionRequest", "SessionCreated", "SessionCreatedPadding",
             "SessionConfirmed">>

\* A timestamp that drops the milliseconds: what C27 rules out.
TimestampTruncating(clk) == clk \div 1000

\* Seconds since the epoch of the clock advanced by 500 ms (the cast to u32
\* changes no value the clock takes here).
Timestamp(clk) == (clk + 500) \div 1000

\* rtt_timer.elapsed(): fails when the clock is behind the recorded time.
ElapsedOk(timer, clk) == clk >= timer

\* A responder that goes on with every version: what C5 rules out.
VersionUnchecked(ver) == ver = ver

\* The version of a SessionRequest the responder goes on with.
VersionSupported(ver) == ver = 2

\* A responder that leaves out the state that reads the padding: what C3
\* rules out.
IBNextStateSkipping(s) ==
    CASE s = "SessionRequest" -> "SessionCreated"
      [] OTHER -> "SessionConfirmed"

\* The state the responder's loop assigns at the end of a turn in state s.
IBNextState(s) ==
    CASE s = "SessionRequest" -> "SessionRequestPadding"
      [] s = "SessionRequestPadding" -> "SessionCreated"
      [] OTHER -> "SessionConfirmed"

\* The state the initiator's loop assigns at the end of a turn in state s.
OBNextState(s) ==
    CASE s = "Connecting" -> "SessionRequest"
      [] s = "SessionRequest" -> "SessionCreated"
      [] s = "SessionCreated" -> "SessionCreatedPadding"
      [] OTHER -> "SessionConfirmed"

\* A responder that reads the advertised length and no more: what the
\* amended C9 rules out.
IBSessionConfirmedLenBare(sclen) == sclen

\* The byte count the responder expects for SessionConfirmed.
IBSessionConfirmedLen(sclen) == sclen + SC_STATIC_LEN

\* A responder that assigns the two secrets as the initiator does: what C1
\* rules out.
IBAskKeysUnswapped(asks) ==
    [some |-> TRUE,
     ek0 |-> ReadU64(asks[1], 0), ek1 |-> ReadU64(asks[1], 1), eiv |-> ReadU64(asks[1], 2),
     dk0 |-> ReadU64(asks[2], 0), dk1 |-> ReadU64(asks[2], 1), div |-> ReadU64(asks[2], 2),
     hs |-> asks[1].h]

\* The length-obfuscation keys of the responder: the encrypting ones from
\* ask1 (Bob to Alice), the decrypting ones from ask0 (Alice to Bob).
IBAskKeys(asks) ==
    [some |-> TRUE,
     ek0 |-> ReadU64(asks[2], 0), ek1 |-> ReadU64(asks[2], 1), eiv |-> ReadU64(asks[2], 2),
     dk0 |-> ReadU64(asks[1], 0), dk1 |-> ReadU64(asks[1], 1), div |-> ReadU64(asks[1], 2),
     hs |-> asks[1].h]

\* The length-obfuscation keys of the initiator: the encrypting ones from
\* ask0 (Alice to Bob), the decrypting ones from ask1 (Bob to Alice).
OBAskKeys(asks) ==
    [some |-> TRUE,
     ek0 |-> ReadU64(asks[1], 0), ek1 |-> ReadU64(asks[1], 1), eiv |-> ReadU64(asks[1], 2),
     dk0 |-> ReadU64(asks[2], 0), dk1 |-> ReadU64(asks[2], 1), div |-> ReadU64(asks[2], 2),
     hs |-> asks[1].h]

\* ------------------------------------------------- IBHandshake::poll

\* IBHandshake::new on an accepted connection.
IBHandshakeNew ==
    [state |-> "SessionRequest",
     noise |-> NoiseSession("kB", "ivB"),
     sclen |-> 0,
     fut |-> ReadExact(SESSION_REQUEST_CT_LEN),
     timer |-> 0,
     res |-> "Pending",
     codec |-> NoCodec,
     path |-> <<"SessionRequest">>]

\* A poll that puts the session back when it leaves: what C23 rules out.
IBLeaveKeeping(w, res) == [w EXCEPT !.ib.res = res, !.ret = res]

\* poll leaves by return or by an abort: the session taken at the top of the
\* loop is dropped and the result is res.  An abort is named by the call that
\* aborts: "PanicMac" (read_message(..).unwrap()), "PanicClock"
\* (elapsed().expect(..)), "PanicBuffer" (write_message(..).unwrap()) and
\* "PanicNoSession" (noise.take().unwrap()).
IBLeave(w, res) == [w EXCEPT !.ib.noise = NoNoise, !.ib.res = res, !.ret = res]

\* A poll that returns NotReady without the session: what C24 rules out.
IBNotReadyDropping(w) == [w EXCEPT !.ret = "NotReady", !.ib.noise = NoNoise]

\* poll returns NotReady: the session is put back.
IBNotReady(w) == [w EXCEPT !.ret = "NotReady"]

\* One turn of the loop in state SessionRequest.
IBSessionRequest(w) ==
    LET r == ReadExactPoll(w.ib.fut, w.rd)
        w1 == [w EXCEPT !.ib.fut = r.fut, !.rd = r.s]
        p == SessionRequestParse(r.bytes.body.pt)
    IN CASE r.status = "NotReady" -> IBNotReady(w1)
         [] r.status = "Eof" -> IBLeave(w1, "IncompleteHandshake")
         [] OTHER ->
            IF ~NoiseReadOk(w.ib.noise, r.bytes, "SessionRequest") THEN IBLeave(w1, "PanicMac")
            ELSE IF ~p.ok THEN IBLeave(w1, "ParseError")
            ELSE IF ~VersionSupported(p.ver) THEN IBLeave(w1, "UnsupportedVersion")
            ELSE [w1 EXCEPT !.ib.noise = NoiseMix(@, "SessionRequest", r.bytes.body.pt),
                            !.ib.sclen = p.sclen,
                            !.ib.state = IBNextState(w.ib.state),
                       !.ib.path = Append(@, IBNextState(w.ib.state)),
                            !.ib.fut = ReadExact(p.padlen)]

\* One turn of the loop in state SessionRequestPadding, at clock clk and with
\* sc_padlen the padding length drawn.
IBSessionRequestPadding(w, clk, sc_padlen) ==
    LET r == ReadExactPoll(w.ib.fut, w.rd)
        w1 == [w EXCEPT !.ib.fut = r.fut, !.rd = r.s]
        n1 == SetHData(w.ib.noise, "h2", r.bytes)
        pt == GenSessionCreated(sc_padlen, Timestamp(clk))
        msg == NoiseMsg(n1, "SessionCreated", SESSION_CREATED_CT_LEN, pt)
        pad == Padding("ib", sc_padlen)
        n3 == SetHData(NoiseMix(n1, "SessionCreated", pt), "h3", pad)
    IN CASE r.status = "NotReady" -> IBNotReady(w1)
         [] r.status = "Eof" -> IBLeave(w1, "IncompleteHandshake")
         [] OTHER ->
            [w1 EXCEPT !.ib.noise = n3,
                       !.ib.state = IBNextState(w.ib.state),
                       !.ib.path = Append(@, IBNextState(w.ib.state)),
                       !.ib.fut = WriteAll(SESSION_CREATED_CT_LEN, sc_padlen),
                       !.ib.timer = clk,
                       !.wr.segs = @ \o Written(msg, pad)]

\* One turn of the loop in state SessionCreated, the stream cutting at j.
IBSessionCreated(w, j) ==
    LET r == WriteAllPoll(w.ib.fut, w.wr, j)
        w1 == [w EXCEPT !.ib.fut = r.fut, !.wr = r.s]
    IN CASE r.status = "NotReady" -> IBNotReady(w1)
         [] r.status = "Err" -> IBLeave(w1, "IoError")
         [] OTHER ->
            [w1 EXCEPT !.ib.state = IBNextState(w.ib.state),
                       !.ib.path = Append(@, IBNextState(w.ib.state)),
                       !.ib.fut = ReadExact(IBSessionConfirmedLen(w.ib.sclen))]

\* A responder that verifies the signature of the RouterInfo it is sent: what
\* C21 rules out.
IBSessionConfirmedVerifying(w, clk) ==
    LET r == ReadExactPoll(w.ib.fut, w.rd)
        w1 == [w EXCEPT !.ib.fut = r.fut, !.rd = r.s]
        n1 == NoiseMix(w.ib.noise, "SessionConfirmed", r.bytes.body.pt)
    IN CASE r.status = "NotReady" -> IBNotReady(w1)
         [] r.status = "Eof" -> IBLeave(w1, "IncompleteHandshake")
         [] OTHER ->
            IF ~NoiseReadOk(w.ib.noise, r.bytes, "SessionConfirmed") THEN IBLeave(w1, "PanicMac")
            ELSE IF ~SessionConfirmedParse(r.bytes.body.pt) THEN IBLeave(w1, "ParseError")
            ELSE IF ~r.bytes.body.pt.ri.verifies THEN IBLeave(w1, "SignatureInvalid")
            ELSE IF ~ElapsedOk(w.ib.timer, clk) THEN IBLeave(w1, "PanicClock")
            ELSE IBLeave([w1 EXCEPT !.ib.codec = IBAskKeys(FinalizeAsk(n1))], "Ready")

\* One turn of the loop in state SessionConfirmed, at clock clk.
IBSessionConfirmed(w, clk) ==
    LET r == ReadExactPoll(w.ib.fut, w.rd)
        w1 == [w EXCEPT !.ib.fut = r.fut, !.rd = r.s]
        n1 == NoiseMix(w.ib.noise, "SessionConfirmed", r.bytes.body.pt)
    IN CASE r.status = "NotReady" -> IBNotReady(w1)
         [] r.status = "Eof" -> IBLeave(w1, "IncompleteHandshake")
         [] OTHER ->
            IF ~NoiseReadOk(w.ib.noise, r.bytes, "SessionConfirmed") THEN IBLeave(w1, "PanicMac")
            ELSE IF ~SessionConfirmedParse(r.bytes.body.pt) THEN IBLeave(w1, "ParseError")
            ELSE IF ~ElapsedOk(w.ib.timer, clk) THEN IBLeave(w1, "PanicClock")
            ELSE IBLeave([w1 EXCEPT !.ib.codec = IBAskKeys(FinalizeAsk(n1))], "Ready")

\* One turn of the loop of poll.
IBStep(w, clk, sc_padlen, j) ==
    IF ~w.ib.noise.some THEN IBLeave(w, "PanicNoSession")
    ELSE CASE w.ib.state = "SessionRequest" -> IBSessionRequest(w)
           [] w.ib.state = "SessionRequestPadding" -> IBSessionRequestPadding(w, clk, sc_padlen)
           [] w.ib.state = "SessionCreated" -> IBSessionCreated(w, j)
           [] OTHER -> IBSessionConfirmed(w, clk)

\* The next turn of the loop, when the turn before did not return.
IBAgain(w, clk, sc_padlen, j) ==
    IF w.ret = "Continue" THEN IBStep(w, clk, sc_padlen, j) ELSE w

\* poll: the loop runs until a turn returns.  Every turn that does not
\* return moves to the next of the four states and a turn in the last state
\* returns, so the loop takes four turns at most.
IBRun(w, clk, sc_padlen, j) ==
    LET turn1 == {IBStep(w, clk, sc_padlen, j)}
        turn2 == {IBAgain(x, clk, sc_padlen, j) : x \in turn1}
        turn3 == {IBAgain(x, clk, sc_padlen, j) : x \in turn2}
        turn4 == {IBAgain(x, clk, sc_padlen, j) : x \in turn3}
    IN CHOOSE x \in turn4 : TRUE

\* ------------------------------------------------- OBHandshake::poll

\* The value of the handshake before OBHandshake::new is called.
NoOBHandshake ==
    [created |-> "None",
     ra |-> NoAddress,
     state |-> "Connecting",
     noise |-> NoNoise,
     sc_buf |-> [ri |-> [len |-> 0, wellformed |-> FALSE, verifies |-> FALSE], padlen |-> 0, len |-> 0],
     sc_len |-> 0,
     fut |-> NoFuture,
     timer |-> 0,
     res |-> "Pending",
     codec |-> NoCodec,
     path |-> <<"Connecting">>]

\* A message 3 without the encrypted static key: what C28 rules out.
SessionConfirmedLenNoKey(n) == n + 16

\* The length of the message Noise writes for message 3 with a payload of
\* n bytes: the encrypted static key with its MAC, the payload, its MAC.
SessionConfirmedLen(n) == SC_STATIC_LEN + n + 16

\* write_message of message 3 into the buffer of NTCP2_MTU bytes succeeds.
SessionConfirmedFits(n) == SessionConfirmedLen(n) <= NTCP2_MTU

\* poll leaves by return or by an abort: the session taken at the top of the
\* loop is dropped and the result is res.
OBLeave(w, res) == [w EXCEPT !.ob.noise = NoNoise, !.ob.res = res, !.ret = res]

\* poll returns NotReady: the session is put back.
OBNotReady(w) == [w EXCEPT !.ret = "NotReady"]

\* One turn of the loop in state Connecting, the connect future being at
\* lnk, at clock clk and with padlen the padding length drawn.
OBConnecting(w, lnk, clk, padlen) ==
    LET pt == GenSessionRequest(2, padlen, w.ob.sc_len % 65536, Timestamp(clk))
        msg == NoiseMsg(w.ob.noise, "SessionRequest", SESSION_REQUEST_CT_LEN, pt)
        pad == Padding("ob", padlen)
        n2 == SetHData(NoiseMix(w.ob.noise, "SessionRequest", pt), "h2", pad)
    IN CASE lnk = "Dialing" -> OBNotReady(w)
         [] lnk = "Refused" -> OBLeave(w, "IoError")
         [] OTHER ->
            [w EXCEPT !.ob.noise = n2,
                      !.ob.state = OBNextState(w.ob.state),
                      !.ob.path = Append(@, OBNextState(w.ob.state)),
                      !.ob.fut = WriteAll(SESSION_REQUEST_CT_LEN, padlen),
                      !.ob.timer = clk,
                      !.wr.segs = @ \o Written(msg, pad)]

\* One turn of the loop in state SessionRequest, the stream cutting at j.
OBSessionRequest(w, j) ==
    LET r == WriteAllPoll(w.ob.fut, w.wr, j)
        w1 == [w EXCEPT !.ob.fut = r.fut, !.wr = r.s]
    IN CASE r.status = "NotReady" -> OBNotReady(w1)
         [] r.status = "Err" -> OBLeave(w1, "IoError")
         [] OTHER ->
            [w1 EXCEPT !.ob.state = OBNextState(w.ob.state),
                      !.ob.path = Append(@, OBNextState(w.ob.state)),
                       !.ob.fut = ReadExact(SESSION_CREATED_CT_LEN)]

\* One turn of the loop in state SessionCreated, at clock clk.
OBSessionCreated(w, clk) ==
    LET r == ReadExactPoll(w.ob.fut, w.rd)
        w1 == [w EXCEPT !.ob.fut = r.fut, !.rd = r.s]
        p == SessionCreatedParse(r.bytes.body.pt)
    IN CASE r.status = "NotReady" -> OBNotReady(w1)
         [] r.status = "Eof" -> OBLeave(w1, "IncompleteHandshake")
         [] OTHER ->
            IF ~NoiseReadOk(w.ob.noise, r.bytes, "SessionCreated") THEN OBLeave(w1, "PanicMac")
            ELSE IF ~p.ok THEN OBLeave(w1, "ParseError")
            ELSE IF ~ElapsedOk(w.ob.timer, clk) THEN OBLeave(w1, "PanicClock")
            ELSE [w1 EXCEPT !.ob.noise = NoiseMix(@, "SessionCreated", r.bytes.body.pt),
                            !.ob.state = OBNextState(w.ob.state),
                      !.ob.path = Append(@, OBNextState(w.ob.state)),
                            !.ob.fut = ReadExact(p.padlen)]

\* One turn of the loop in state SessionCreatedPadding.
OBSessionCreatedPadding(w) ==
    LET r == ReadExactPoll(w.ob.fut, w.rd)
        w1 == [w EXCEPT !.ob.fut = r.fut, !.rd = r.s]
        n1 == SetHData(w.ob.noise, "h3", r.bytes)
        len == SessionConfirmedLen(w.ob.sc_buf.len)
        msg == NoiseMsg(n1, "SessionConfirmed", len, w.ob.sc_buf)
    IN CASE r.status = "NotReady" -> OBNotReady(w1)
         [] r.status = "Eof" -> OBLeave(w1, "IncompleteHandshake")
         [] OTHER ->
            IF ~SessionConfirmedFits(w.ob.sc_buf.len) THEN OBLeave(w1, "PanicBuffer")
            ELSE [w1 EXCEPT !.ob.noise = NoiseMix(n1, "SessionConfirmed", w.ob.sc_buf),
                            !.ob.state = OBNextState(w.ob.state),
                      !.ob.path = Append(@, OBNextState(w.ob.state)),
                            !.ob.fut = WriteAll(len, 0),
                            !.wr.segs = Append(@, msg)]

\* One turn of the loop in state SessionConfirmed, the stream cutting at j.
OBSessionConfirmed(w, j) ==
    LET r == WriteAllPoll(w.ob.fut, w.wr, j)
        w1 == [w EXCEPT !.ob.fut = r.fut, !.wr = r.s]
    IN CASE r.status = "NotReady" -> OBNotReady(w1)
         [] r.status = "Err" -> OBLeave(w1, "IoError")
         [] OTHER ->
            OBLeave([w1 EXCEPT !.ob.codec = OBAskKeys(FinalizeAsk(w.ob.noise))], "Ready")

\* One turn of the loop of poll.
OBStep(w, lnk, clk, padlen, j) ==
    IF ~w.ob.noise.some THEN OBLeave(w, "PanicNoSession")
    ELSE CASE w.ob.state = "Connecting" -> OBConnecting(w, lnk, clk, padlen)
           [] w.ob.state = "SessionRequest" -> OBSessionRequest(w, j)
           [] w.ob.state = "SessionCreated" -> OBSessionCreated(w, clk)
           [] w.ob.state = "SessionCreatedPadding" -> OBSessionCreatedPadding(w)
           [] OTHER -> OBSessionConfirmed(w, j)

\* The next turn of the loop, when the turn before did not return.
OBAgain(w, lnk, clk, padlen, j) ==
    IF w.ret = "Continue" THEN OBStep(w, lnk, clk, padlen, j) ELSE w

\* poll: the loop runs until a turn returns.  Every turn that does not
\* return moves to the next of the five states and a turn in the last state
\* returns, so the loop takes five turns at most.
OBRun(w, lnk, clk, padlen, j) ==
    LET turn1 == {OBStep(w, lnk, clk, padlen, j)}
        turn2 == {OBAgain(x, lnk, clk, padlen, j) : x \in turn1}
        turn3 == {OBAgain(x, lnk, clk, padlen, j) : x \in turn2}
        turn4 == {OBAgain(x, lnk, clk, padlen, j) : x \in turn3}
        turn5 == {OBAgain(x, lnk, clk, padlen, j) : x \in turn4}
    IN CHOOSE x \in turn5 : TRUE

\* ----------------------------------------------------------------- actions

\* No value of the data module is under operation.
NoData == [kind |-> "none"]

NoArgs == [own_ri |-> [len |-> 0, wellformed |-> FALSE, verifies |-> FALSE], peer_addrs |-> <<>>]

Init ==
    /\ ib = IBHandshakeNew
    /\ ob = NoOBHandshake
    /\ a2b = EmptyStream
    /\ b2a = EmptyStream
    /\ clock \in ClockValues
    /\ link = "None"
    /\ args \in [own_ri : OwnRouterInfos, peer_addrs : AddrLists]
    /\ data = NoData

\* OBHandshake::new(conn, static_key, own_ri, peer_ri): the arguments are
\* consumed; the connect closure is invoked when new gets that far.
OBNew ==
    /\ ob.created = "None"
    /\ args # NoArgs
    /\ \E sc_padlen \in PadLens :
          LET n == OBHandshakeNew(args.own_ri, args.peer_addrs, sc_padlen)
          IN /\ ob' = [ob EXCEPT !.created = n.result, !.ra = n.ra, !.noise = n.noise,
                                 !.sc_buf = n.sc_buf, !.sc_len = n.sc_len]
             /\ link' = IF n.dials THEN "Dialing" ELSE link
    /\ args' = NoArgs
    /\ UNCHANGED <<ib, a2b, b2a, clock, data>>

\* The connect future resolves to a connection.
ConnectUp ==
    /\ link = "Dialing"
    /\ link' = "Up"
    /\ UNCHANGED <<ib, ob, a2b, b2a, clock, args, data>>

\* The connect future resolves to an error.
ConnectRefused ==
    /\ link = "Dialing"
    /\ link' = "Refused"
    /\ UNCHANGED <<ib, ob, a2b, b2a, clock, args, data>>

\* One call of OBHandshake::poll.
OBPoll ==
    /\ ob.created = "Ok"
    /\ ob.res = "Pending"
    /\ \E padlen \in PadLens, j \in Cuts :
          LET w == OBRun([ob |-> ob, rd |-> b2a, wr |-> a2b, ret |-> "Continue"],
                         link, clock, padlen, j)
          IN /\ ob' = w.ob
             /\ b2a' = w.rd
             /\ a2b' = w.wr
    /\ UNCHANGED <<ib, clock, link, args, data>>

\* One call of IBHandshake::poll.
IBPoll ==
    /\ ib.res = "Pending"
    /\ \E sc_padlen \in PadLens, j \in Cuts :
          LET w == IBRun([ib |-> ib, rd |-> a2b, wr |-> b2a, ret |-> "Continue"],
                         clock, sc_padlen, j)
          IN /\ ib' = w.ib
             /\ a2b' = w.rd
             /\ b2a' = w.wr
    /\ UNCHANGED <<ob, clock, link, args, data>>

\* The responder's future has not resolved.
IBAlive == ib.res = "Pending"

\* The initiator's future exists and has not resolved.
OBAlive == ob.created = "Ok" /\ ob.res = "Pending"

\* The connection exists: the dial has succeeded, or a foreign peer has
\* connected.
Connected == link = "Up" \/ ob.created = "Foreign"

\* The wall clock is set, forwards or backwards, while a handshake can still
\* read it.
ClockSet ==
    /\ IBAlive \/ OBAlive
    /\ \E t \in ClockValues \ {clock} : clock' = t
    /\ UNCHANGED <<ib, ob, a2b, b2a, link, args, data>>

\* The initiator's end of the connection goes away: the responder reads end
\* of stream once it has taken what was sent.
CloseA2B ==
    /\ Connected
    /\ IBAlive
    /\ ~a2b.closed
    /\ a2b' = [a2b EXCEPT !.closed = TRUE]
    /\ UNCHANGED <<ib, ob, b2a, clock, link, args, data>>

\* The responder's end of the connection goes away.
CloseB2A ==
    /\ Connected
    /\ IBAlive \/ OBAlive
    /\ ~b2a.closed
    /\ b2a' = [b2a EXCEPT !.closed = TRUE]
    /\ UNCHANGED <<ib, ob, a2b, clock, link, args, data>>

\* A buffer s.segs[i] that is on its way can be altered.
InFlight(s, i) ==
    /\ SegStart(s.segs, i) < s.flushed
    /\ SegStart(s.segs, i) + s.segs[i].len > s.taken

\* The buffer with its bytes altered: a ciphertext no longer verifies, a
\* padding is other bytes.
Altered(seg) ==
    IF seg.kind = "pad" THEN [seg EXCEPT !.body.who = "altered"]
    ELSE [seg EXCEPT !.body.ok = FALSE]

\* Bytes on their way to the responder are altered.
TamperA2B ==
    /\ IBAlive
    /\ \E i \in 1..Len(a2b.segs) :
          /\ InFlight(a2b, i)
          /\ Altered(a2b.segs[i]) # a2b.segs[i]
          /\ a2b' = [a2b EXCEPT !.segs[i] = Altered(@)]
    /\ UNCHANGED <<ib, ob, b2a, clock, link, args, data>>

\* Bytes on their way to the initiator are altered.
TamperB2A ==
    /\ OBAlive
    /\ \E i \in 1..Len(b2a.segs) :
          /\ InFlight(b2a, i)
          /\ Altered(b2a.segs[i]) # b2a.segs[i]
          /\ b2a' = [b2a EXCEPT !.segs[i] = Altered(@)]
    /\ UNCHANGED <<ib, ob, a2b, clock, link, args, data>>

\* Versions and message 3 lengths a foreign initiator may put in its
\* SessionRequest.
ForeignVersions == {2, 3}

ForeignScLens == {RI_BASE_LEN + 16, NTCP2_MTU - 15}

\* A peer that is not an OBHandshake of this program connects and sends a
\* SessionRequest of its own making, correctly encrypted to the responder,
\* with the padding it announces.
ForeignSessionRequest ==
    /\ ob.created = "None"
    /\ args # NoArgs
    /\ \E ver \in ForeignVersions, sclen \in ForeignScLens, padlen \in PadLens :
          LET pt == GenSessionRequest(ver, padlen, sclen, Timestamp(clock))
              msg == NoiseMsg(ib.noise, "SessionRequest", SESSION_REQUEST_CT_LEN, pt)
              buf == Written(msg, Padding("peer", padlen))
          IN a2b' = [a2b EXCEPT !.segs = buf,
                                !.flushed = SESSION_REQUEST_CT_LEN + padlen]
    /\ ob' = [ob EXCEPT !.created = "Foreign"]
    /\ args' = NoArgs
    /\ UNCHANGED <<ib, b2a, clock, link, data>>

Next ==
    \/ OBNew
    \/ ConnectUp
    \/ ConnectRefused
    \/ OBPoll
    \/ IBPoll
    \/ ClockSet
    \/ CloseA2B
    \/ CloseB2A
    \/ TamperA2B
    \/ TamperB2A
    \/ ForeignSessionRequest

Spec == Init /\ [][Next]_vars

\* The handshake of an honest pair over a reliable connection: the peer's
\* RouterInfo advertises the responder's own static key and IV, the dial
\* succeeds, nothing is closed or altered, and new and both futures are
\* driven as long as they can take a step.
LiveInit ==
    /\ Init
    /\ args.peer_addrs = <<Address(NTCP2_STYLE, "v4", "2", "kB", "ivB")>>

LiveNext ==
    \/ OBNew
    \/ ConnectUp
    \/ OBPoll
    \/ IBPoll
    \/ ClockSet

LiveSpec ==
    /\ LiveInit
    /\ [][LiveNext]_vars
    /\ WF_vars(OBNew)
    /\ WF_vars(ConnectUp)
    /\ WF_vars(OBPoll)
    /\ WF_vars(IBPoll)

\* ------------------------------------------------------------- RouterInfo

\* The signing private keys at hand; the public key of each.
SigningKeys == {"K1", "K2"}

SigningPublicKey(spk) == [public |-> spk]

\* An absent signature.
NoSignature == [some |-> FALSE, by |-> "none", msg |-> <<>>]

\* spk.sign(msg): a signature of the message by the key.
SignMsg(spk, msg) == [some |-> TRUE, by |-> spk, msg |-> msg]

\* signing_key.verify(msg, sig): the signature is one of this message by the
\* private key of this public key.
VerifySig(signing_key, msg, sig) ==
    IF SigningPublicKey(sig.by) = signing_key /\ sig.msg = msg THEN "Ok" ELSE "SignatureInvalid"

\* RouterInfo::new(rid) at the time now.
RouterInfoNew(rid, now) ==
    [router_id |-> rid, published |-> now, addresses |-> <<>>, peers |-> <<>>,
     options |-> {}, signature |-> NoSignature]

\* RouterInfo::signature_bytes: the serialization of every field but the
\* signature, in the order of the fields.
SignatureBytes(ri) ==
    <<ri.router_id, ri.published, ri.addresses, ri.peers, ri.options>>

\* A set_addresses that keeps the signature: what C14 rules out.
RouterInfoSetAddressesKeeping(ri, addrs) == [ri EXCEPT !.addresses = addrs]

\* RouterInfo::set_addresses.
RouterInfoSetAddresses(ri, addrs) ==
    [ri EXCEPT !.addresses = addrs, !.signature = NoSignature]

\* A sign that leaves the addresses out of what it signs: what C15 rules out.
RouterInfoSignNoAddresses(ri, spk) ==
    [ri EXCEPT !.signature = SignMsg(spk, SignatureBytes([ri EXCEPT !.addresses = <<>>]))]

\* RouterInfo::sign.
RouterInfoSign(ri, spk) ==
    [ri EXCEPT !.signature = SignMsg(spk, SignatureBytes(ri))]

\* RouterInfo::verify.
RouterInfoVerify(ri) ==
    IF ri.signature.some
    THEN VerifySig(ri.router_id.signing_key, SignatureBytes(ri), ri.signature)
    ELSE "NoSignature"

\* The addresses set_addresses is called with.
DataAddrPool ==
    {Address(NTCP2_STYLE, "v4", "2", "kB", "ivB"),
     Address(NTCP2_STYLE, "v4", "2", "kX", "ivB"),
     Address(NTCP2_STYLE, "v6", "2", "kB", "ivB"),
     Address(NTCP2_STYLE, "bad", "2", "kB", "ivB"),
     Address("SSU", "v4", "none", "none", "none")}

DataAddrLists == UNION {[1..n -> DataAddrPool] : n \in 0..MaxAddrs}

\* The closures address is called with here: one that accepts every address
\* and one that accepts a single static key.
FilterNames == {"all", "kX"}

FilterOf(name) == [ra \in AddrPool |-> IF name = "all" THEN TRUE ELSE ra.s = "kX"]

\* A call made on the RouterInfo: the operation, whether the RouterInfo had
\* a signature when it was made, its arguments, and what it returned.
Call(op, ri, style, filter, by, ret, ra) ==
    [op |-> op, signed |-> ri.signature.some, style |-> style, filter |-> filter,
     by |-> by, ret |-> ret, ra |-> ra]

NoCall == [op |-> "none", signed |-> FALSE, style |-> "none", filter |-> "none",
           by |-> "none", ret |-> "none", ra |-> NoAddress]

\* What is kept of the call before the last: the operation, the key it was
\* given and whether the RouterInfo had a signature.
Before(call) == [op |-> call.op, by |-> call.by, signed |-> call.signed]

\* The RouterInfo under operation, the last call made on it and the call
\* before that.
RouterInfoData(ri, last, prev) ==
    [kind |-> "RouterInfo", ri |-> ri, last |-> last, prev |-> Before(prev)]

IsRouterInfo == data.kind = "RouterInfo"

\* A caller calls set_addresses.
SetAddresses ==
    /\ IsRouterInfo
    /\ \E addrs \in DataAddrLists :
          data' = RouterInfoData(RouterInfoSetAddresses(data.ri, addrs),
                                 Call("set_addresses", data.ri, "none", "none", "none", "none", NoAddress),
                                 data.last)
    /\ UNCHANGED hsvars

\* A caller calls sign with one of the keys.
Sign ==
    /\ IsRouterInfo
    /\ \E spk \in SigningKeys :
          data' = RouterInfoData(RouterInfoSign(data.ri, spk),
                                 Call("sign", data.ri, "none", "none", spk, "none", NoAddress),
                                 data.last)
    /\ UNCHANGED hsvars

\* A caller calls verify.
Verify ==
    /\ IsRouterInfo
    /\ data' = RouterInfoData(data.ri,
                              Call("verify", data.ri, "none", "none", "none",
                                   RouterInfoVerify(data.ri), NoAddress),
                              data.last)
    /\ UNCHANGED hsvars

\* A caller calls address with a style and a closure.
AddressCall ==
    /\ IsRouterInfo
    /\ \E style \in Styles, f \in FilterNames :
          LET r == RouterInfoAddress(data.ri.addresses, style, FilterOf(f))
          IN data' = RouterInfoData(data.ri,
                                    Call("address", data.ri, style, f, "none", r.r, r.ra),
                                    data.last)
    /\ UNCHANGED hsvars

\* ------------------------------------------------------------------- Hash

\* The bytes of a Hash.
HASH_LEN == 32

RECURSIVE XorByte(_, _)
\* a ^ b on u8.
XorByte(a, b) ==
    IF a = 0 /\ b = 0 THEN 0
    ELSE (((a % 2) + (b % 2)) % 2) + 2 * XorByte(a \div 2, b \div 2)

\* An xor that stops one byte short: what C17 rules out.
HashXorShort(h, other) ==
    [i \in 1..HASH_LEN |-> IF i < HASH_LEN THEN XorByte(h[i], other[i]) ELSE h[i]]

\* Hash::xor: what self holds after self.xor(other).
HashXor(h, other) == [i \in 1..HASH_LEN |-> XorByte(h[i], other[i])]

\* Hash::from_bytes of 32 bytes b.
HashOf(b) == [i \in 1..HASH_LEN |-> b]

ZeroHash == HashOf(0)

\* The hashes at hand: the same byte 32 times, and bytes that differ.
Hashes ==
    {HashOf(b) : b \in {0, 1, 2, 255}} \cup {[i \in 1..HASH_LEN |-> i - 1]}

\* No xor has been made.
NoXor == [made |-> FALSE, before |-> ZeroHash, other |-> ZeroHash, after |-> ZeroHash,
          other_after |-> ZeroHash]

\* The Hash under operation, the last xor made on it and the one before.
HashData(h, last, prev) == [kind |-> "Hash", h |-> h, last |-> last, prev |-> prev]

\* A caller calls self.xor(&other).
Xor ==
    /\ data.kind = "Hash"
    /\ \E other \in Hashes :
          data' = HashData(HashXor(data.h, other),
                           [made |-> TRUE, before |-> data.h, other |-> other,
                            after |-> HashXor(data.h, other), other_after |-> other],
                           data.last)
    /\ UNCHANGED hsvars

\* -------------------------------------------------------------- I2PString

\* The longest string operated on.
MaxStrLen == 3

\* The characters of the strings.
Chars == {"a", "1", ","}

Strings == UNION {[1..n -> Chars] : n \in 0..MaxStrLen}

\* The place of the first comma of a string that has one.
FirstComma(str) == CHOOSE i \in 1..Len(str) : str[i] = "," /\ \A j \in 1..(i - 1) : str[j] # ","

RECURSIVE Split(_)
\* str.split(','): the pieces between the commas, in order.
Split(str) ==
    IF \A i \in 1..Len(str) : str[i] # "," THEN <<str>>
    ELSE <<SubSeq(str, 1, FirstComma(str) - 1)>>
         \o Split(SubSeq(str, FirstComma(str) + 1, Len(str)))

\* A to_csv that leaves out the empty pieces: what C18 rules out.
I2PStringToCsvNoEmpty(str) == SelectSeq(Split(str), LAMBDA f : f # <<>>)

\* I2PString::to_csv.
I2PStringToCsv(str) == Split(str)

\* The string under operation and what to_csv returned for it.
StringData(str, called, csv) == [kind |-> "String", str |-> str, called |-> called, csv |-> csv]

\* A caller calls to_csv.
ToCsvCall ==
    /\ data.kind = "String"
    /\ ~data.called
    /\ data' = StringData(data.str, TRUE, I2PStringToCsv(data.str))
    /\ UNCHANGED hsvars

\* ---------------------------------------------------------- RouterIdentity

\* The signature types of signing keys.
SigTypes == {"DsaSha1", "EcdsaSha256P256", "Ed25519"}

\* SigType::pad_len(ElGamal2048): the bytes that fill the 384-byte block
\* behind a 256-byte encryption key and the signing key.
PadLen(sig_type) ==
    CASE sig_type = "DsaSha1" -> 0
      [] sig_type = "EcdsaSha256P256" -> 64
      [] OTHER -> 96

NullCertificate == [cert |-> "Null", sig_type |-> "none", enc_type |-> "none",
                    sig_data |-> <<>>, enc_data |-> <<>>]

\* A from_secrets that gives every other type a key certificate: what C19
\* rules out.
CertificateForAny(sig_type) ==
    IF sig_type = "DsaSha1" THEN [r |-> "Ok", certificate |-> NullCertificate]
    ELSE [r |-> "Ok",
          certificate |-> [cert |-> "Key", sig_type |-> sig_type, enc_type |-> "ElGamal2048",
                           sig_data |-> <<>>, enc_data |-> <<>>]]

\* The certificate from_secrets gives a signing key of the type, "Panic"
\* when it gives none.
CertificateFor(sig_type) ==
    CASE sig_type = "DsaSha1" -> [r |-> "Ok", certificate |-> NullCertificate]
      [] sig_type = "Ed25519" ->
            [r |-> "Ok",
             certificate |-> [cert |-> "Key", sig_type |-> "Ed25519", enc_type |-> "ElGamal2048",
                              sig_data |-> <<>>, enc_data |-> <<>>]]
      [] OTHER -> [r |-> "Panic", certificate |-> NullCertificate]

\* The padding from_secrets gives: absent, or that many random bytes.
PaddingFor(sig_type) ==
    IF PadLen(sig_type) = 0 THEN [some |-> FALSE, len |-> 0]
    ELSE [some |-> TRUE, len |-> PadLen(sig_type)]

NoPadding == [some |-> FALSE, len |-> 0]

\* RouterIdentity::from_secrets for a signing key of the type.
RouterIdentityFromSecrets(sig_type) ==
    IF CertificateFor(sig_type).r = "Panic"
    THEN [r |-> "Panic", certificate |-> NullCertificate, padding |-> NoPadding]
    ELSE [r |-> "Ok", certificate |-> CertificateFor(sig_type).certificate,
          padding |-> PaddingFor(sig_type)]

NoRouterIdentity == [r |-> "none", certificate |-> NullCertificate, padding |-> NoPadding]

\* The signature type of the secrets and what from_secrets returned.
SecretsData(sig_type, rid) == [kind |-> "Secrets", sig_type |-> sig_type, rid |-> rid]

\* A caller calls from_secrets.
FromSecrets ==
    /\ data.kind = "Secrets"
    /\ data.rid = NoRouterIdentity
    /\ data' = SecretsData(data.sig_type, RouterIdentityFromSecrets(data.sig_type))
    /\ UNCHANGED hsvars

\* ------------------------------------------------- the data module's codec

\* n bytes of the value b.
Fill(n, b) == IF n = 0 THEN <<>> ELSE [i \in 1..n |-> b]

RECURSIVE BE(_, _)
\* The w big-endian bytes of n.
BE(n, w) == IF w = 0 THEN <<>> ELSE BE(n \div 256, w - 1) \o <<n % 256>>

RECURSIVE FromBE(_)
\* The number that big-endian bytes hold.
FromBE(bs) ==
    IF bs = <<>> THEN 0 ELSE FromBE(SubSeq(bs, 1, Len(bs) - 1)) * 256 + bs[Len(bs)]

\* The bytes behind the first n.
Drop(bs, n) == SubSeq(bs, n + 1, Len(bs))

RECURSIVE Flatten(_)
\* The pieces a generator writes, one behind the other.
Flatten(chunks) ==
    IF chunks = <<>> THEN <<>> ELSE Head(chunks) \o Flatten(Tail(chunks))

\* A parse that failed, and one that gave v and left rest.
ParseFail == [ok |-> FALSE, v |-> <<>>, rest |-> <<>>]
Parsed(v, rest) == [ok |-> TRUE, v |-> v, rest |-> rest]

\* gen of an I2PString: u8 length, then the bytes.
GenI2PString(str) == <<Len(str)>> \o str

\* The parser of an I2PString.
I2PStringParse(bs) ==
    IF Len(bs) < 1 THEN ParseFail
    ELSE IF Len(bs) < 1 + bs[1] THEN ParseFail
    ELSE Parsed(SubSeq(bs, 2, 1 + bs[1]), Drop(bs, 1 + bs[1]))

RECURSIVE StrLess(_, _)
\* The order of the keys: byte by byte, a prefix before what it begins.
StrLess(a, b) ==
    IF b = <<>> THEN FALSE
    ELSE IF a = <<>> THEN TRUE
    ELSE IF a[1] # b[1] THEN a[1] < b[1]
    ELSE StrLess(Tail(a), Tail(b))

RECURSIVE GenPairs(_)
\* The pairs of a Mapping in the order of their keys: key, '=', value, ';'.
GenPairs(m) ==
    IF m = {} THEN <<>>
    ELSE LET p == CHOOSE p \in m : \A q \in m : q = p \/ StrLess(p[1], q[1])
         IN GenI2PString(p[1]) \o <<61>> \o GenI2PString(p[2]) \o <<59>> \o GenPairs(m \ {p})

\* gen of a Mapping: u16 length of the pairs, then the pairs.
GenMapping(m) == BE(Len(GenPairs(m)), 2) \o GenPairs(m)

\* HashMap::insert.
Insert(m, k, v) == {p \in m : p[1] # k} \cup {<<k, v>>}

RECURSIVE PairsParse(_, _)
\* The parser of the pairs of a Mapping, into the map m.
PairsParse(bs, m) ==
    IF bs = <<>> THEN Parsed(m, <<>>)
    ELSE LET k == I2PStringParse(bs)
         IN IF ~k.ok \/ k.rest = <<>> THEN ParseFail
            ELSE IF Head(k.rest) # 61 THEN ParseFail
            ELSE LET v == I2PStringParse(Tail(k.rest))
                 IN IF ~v.ok \/ v.rest = <<>> THEN ParseFail
                    ELSE IF Head(v.rest) # 59 THEN ParseFail
                    ELSE PairsParse(Tail(v.rest), Insert(m, k.v, v.v))

\* The parser of a Mapping.
MappingParse(bs) ==
    IF Len(bs) < 2 THEN ParseFail
    ELSE LET n == FromBE(SubSeq(bs, 1, 2))
         IN IF Len(bs) < 2 + n THEN ParseFail
            ELSE LET m == PairsParse(SubSeq(bs, 3, 2 + n), {})
                 IN IF m.ok THEN Parsed(m.v, Drop(bs, 2 + n)) ELSE ParseFail

\* The wire tags of the signature types and of ElGamal2048, the lengths of
\* the keys and of the signatures.
SigCode(sig_type) ==
    CASE sig_type = "DsaSha1" -> 0 [] sig_type = "EcdsaSha256P256" -> 1 [] OTHER -> 7
SigTypeOfCode(code) ==
    CASE code = 0 -> "DsaSha1" [] code = 1 -> "EcdsaSha256P256" [] code = 7 -> "Ed25519"
      [] OTHER -> "none"
EncCode(enc_type) == 0
PubKeyLen == 256
KeyBlockLen == 384
SigKeyLen(sig_type) == KeyBlockLen - PubKeyLen - PadLen(sig_type)
SigLen(sig_type) == IF sig_type = "DsaSha1" THEN 40 ELSE 64

\* Certificate::code.
CertificateCode(c) ==
    CASE c.cert = "Null" -> 0 [] c.cert = "HashCash" -> 1 [] c.cert = "Hidden" -> 2
      [] c.cert = "Signed" -> 3 [] c.cert = "Multiple" -> 4 [] OTHER -> 5

\* A certificate that carries bytes, and the one that is hidden.
BytesCertificate(cert, payload) ==
    [cert |-> cert, sig_type |-> "none", enc_type |-> "none", sig_data |-> payload,
     enc_data |-> <<>>]
HiddenCertificate == BytesCertificate("Hidden", <<>>)

\* The payload of a certificate.
CertificatePayload(c) ==
    IF c.cert = "Key"
    THEN BE(SigCode(c.sig_type), 2) \o BE(EncCode(c.enc_type), 2) \o c.sig_data \o c.enc_data
    ELSE c.sig_data

\* gen of a Certificate: u8 type code, u16 length of the payload, payload.
GenCertificate(c) ==
    <<CertificateCode(c)>> \o BE(Len(CertificatePayload(c)), 2) \o CertificatePayload(c)

\* The parser of a Certificate.
CertificateParse(bs) ==
    IF Len(bs) < 3 THEN ParseFail
    ELSE LET code == bs[1]
             n == FromBE(SubSeq(bs, 2, 3))
             payload == SubSeq(bs, 4, 3 + n)
             rest == Drop(bs, 3 + n)
         IN IF Len(bs) < 3 + n THEN ParseFail
            ELSE CASE code = 0 -> IF n = 0 THEN Parsed(NullCertificate, rest) ELSE ParseFail
                   [] code = 1 -> Parsed(BytesCertificate("HashCash", payload), rest)
                   [] code = 2 -> IF n = 0 THEN Parsed(HiddenCertificate, rest) ELSE ParseFail
                   [] code = 3 -> Parsed(BytesCertificate("Signed", payload), rest)
                   [] code = 4 -> Parsed(BytesCertificate("Multiple", payload), rest)
                   [] code = 5 ->
                        IF n < 4 THEN ParseFail
                        ELSE IF SigTypeOfCode(FromBE(SubSeq(payload, 1, 2))) = "none"
                                \/ FromBE(SubSeq(payload, 3, 4)) # 0
                        THEN ParseFail
                        ELSE Parsed([cert |-> "Key",
                                     sig_type |-> SigTypeOfCode(FromBE(SubSeq(payload, 1, 2))),
                                     enc_type |-> "ElGamal2048",
                                     sig_data |-> <<>>, enc_data |-> Drop(payload, 4)], rest)
                   [] OTHER -> ParseFail

\* The signature type of the key an identity with this certificate holds.
CertSigType(c) == IF c.cert = "Key" THEN c.sig_type ELSE "DsaSha1"

\* The identity from_secrets gives for a signing key of the type: the keys
\* are bytes of the router's number, the padding is random bytes.
WireRouterIdentity(sig_type, kid, pad) ==
    [public_key |-> Fill(PubKeyLen, kid),
     padding |-> [some |-> RouterIdentityFromSecrets(sig_type).padding.some,
                  bytes |-> Fill(RouterIdentityFromSecrets(sig_type).padding.len, pad)],
     signing_key |-> [sig_type |-> sig_type, bytes |-> Fill(SigKeyLen(sig_type), kid)],
     certificate |-> RouterIdentityFromSecrets(sig_type).certificate]

\* gen of a RouterIdentity, piece by piece: the 384-byte block of the
\* keys, then the certificate.
RouterIdentityChunks(rid) ==
    <<rid.public_key, rid.padding.bytes, rid.signing_key.bytes, GenCertificate(rid.certificate)>>

\* The parser of a RouterIdentity.
RouterIdentityParse(bs) ==
    IF Len(bs) < KeyBlockLen THEN ParseFail
    ELSE LET c == CertificateParse(Drop(bs, KeyBlockLen))
             t == CertSigType(c.v)
         IN IF ~c.ok THEN ParseFail
            ELSE Parsed([public_key |-> SubSeq(bs, 1, PubKeyLen),
                         padding |-> IF PadLen(t) = 0 THEN [some |-> FALSE, bytes |-> <<>>]
                                     ELSE [some |-> TRUE,
                                           bytes |-> SubSeq(bs, PubKeyLen + 1, PubKeyLen + PadLen(t))],
                         signing_key |-> [sig_type |-> t,
                                          bytes |-> SubSeq(bs, PubKeyLen + PadLen(t) + 1, KeyBlockLen)],
                         certificate |-> c.v], c.rest)

\* A RouterAddress.
WireAddress(cost, expiration, style, options) ==
    [cost |-> cost, expiration |-> expiration, transport_style |-> style, options |-> options]

\* gen of a RouterAddress: u8 cost, u64 expiration, style, options.
GenRouterAddress(ra) ==
    <<ra.cost>> \o BE(ra.expiration, 8) \o GenI2PString(ra.transport_style)
        \o GenMapping(ra.options)

\* The parser of a RouterAddress.
RouterAddressParse(bs) ==
    IF Len(bs) < 9 THEN ParseFail
    ELSE LET style == I2PStringParse(Drop(bs, 9))
             options == MappingParse(style.rest)
         IN IF ~style.ok THEN ParseFail
            ELSE IF ~options.ok THEN ParseFail
            ELSE Parsed(WireAddress(bs[1], FromBE(SubSeq(bs, 2, 9)), style.v, options.v),
                        options.rest)

\* The pieces of a RouterInfo before its signature: identity, u64
\* published, u8 count and the addresses, u8 count and the peers, options.
RouterInfoMinusSigChunks(ri) ==
    RouterIdentityChunks(ri.router_id)
        \o <<BE(ri.published, 8), <<Len(ri.addresses)>>>>
        \o (IF ri.addresses = <<>> THEN <<>>
            ELSE [i \in 1..Len(ri.addresses) |-> GenRouterAddress(ri.addresses[i])])
        \o <<<<Len(ri.peers)>>>>
        \o ri.peers
        \o <<GenMapping(ri.options)>>

\* The pieces of a RouterInfo: those before the signature, then the
\* signature.
RouterInfoChunks(ri) == RouterInfoMinusSigChunks(ri) \o <<ri.signature.bytes>>

\* The generator over a buffer of buflen bytes, from the offset off: the
\* size written, or BufferTooSmall with the size the piece that did not fit
\* would have reached.
RECURSIVE GenAt(_, _, _)
GenAt(chunks, off, buflen) ==
    IF chunks = <<>> THEN [r |-> "Ok", sz |-> off]
    ELSE IF off + Len(Head(chunks)) > buflen
    THEN [r |-> "BufferTooSmall", sz |-> off + Len(Head(chunks))]
    ELSE GenAt(Tail(chunks), off + Len(Head(chunks)), buflen)

\* A to_bytes that does not grow its buffer: what the loop rules out.
ToBytesOnce(chunks, buflen, base_len) ==
    SubSeq(Flatten(chunks) \o Fill(buflen, 0), 1,
           IF GenAt(chunks, 0, buflen).r = "Ok" THEN GenAt(chunks, 0, buflen).sz ELSE buflen)

RECURSIVE ToBytes(_, _, _)
\* The loop of to_bytes and of signature_bytes: a buffer of base_len zero
\* bytes, grown by sz - base_len at BufferTooSmall(sz), cut to the size
\* written.
ToBytes(chunks, buflen, base_len) ==
    IF GenAt(chunks, 0, buflen).r = "Ok"
    THEN SubSeq(Flatten(chunks) \o Fill(buflen - GenAt(chunks, 0, buflen).sz, 0), 1,
                GenAt(chunks, 0, buflen).sz)
    ELSE ToBytes(chunks, buflen + (GenAt(chunks, 0, buflen).sz - base_len), base_len)

RID_BASE_LEN == 387
SIG_BASE_LEN == 395

\* RouterIdentity::to_bytes.
RouterIdentityToBytes(rid) == ToBytes(RouterIdentityChunks(rid), RID_BASE_LEN, RID_BASE_LEN)

\* RouterInfo::to_bytes.
RouterInfoToBytes(ri) == ToBytes(RouterInfoChunks(ri), RI_BASE_LEN, RI_BASE_LEN)

\* RouterInfo::signature_bytes, byte by byte.
RouterInfoSignatureBytes(ri) ==
    ToBytes(RouterInfoMinusSigChunks(ri), SIG_BASE_LEN, SIG_BASE_LEN)

RECURSIVE ByteSum(_)
\* The sum of the bytes, in a byte.
ByteSum(bs) ==
    IF Len(bs) = 0 THEN 0
    ELSE IF Len(bs) = 1 THEN bs[1]
    ELSE (ByteSum(SubSeq(bs, 1, Len(bs) \div 2))
            + ByteSum(SubSeq(bs, Len(bs) \div 2 + 1, Len(bs)))) % 256

\* A signature of the key's type over the message: it holds the key and a
\* digest of the message.
WireSignature(signing_key, msg) ==
    <<signing_key.bytes[1], ByteSum(msg), Len(msg) % 256, (Len(msg) \div 256) % 256>>
        \o Fill(SigLen(signing_key.sig_type) - 4, 0)

\* RouterInfo::sign, byte by byte, by the private key of the router.
WireSign(ri) ==
    [ri EXCEPT !.signature =
        [some |-> TRUE,
         bytes |-> WireSignature(ri.router_id.signing_key, RouterInfoSignatureBytes(ri))]]

\* RouterInfo::verify, byte by byte.
WireVerify(ri) ==
    IF ~ri.signature.some THEN "NoSignature"
    ELSE IF ri.signature.bytes
              = WireSignature(ri.router_id.signing_key, RouterInfoSignatureBytes(ri))
    THEN "Ok"
    ELSE "SignatureInvalid"

RECURSIVE AddressesParse(_, _, _)
\* The parser of n addresses.
AddressesParse(bs, n, acc) ==
    IF n = 0 THEN Parsed(acc, bs)
    ELSE LET ra == RouterAddressParse(bs)
         IN IF ~ra.ok THEN ParseFail ELSE AddressesParse(ra.rest, n - 1, Append(acc, ra.v))

\* The parser of a RouterInfo.
RouterInfoParse(bs) ==
    LET rid == RouterIdentityParse(bs)
    IN IF ~rid.ok THEN ParseFail
       ELSE IF Len(rid.rest) < 9 THEN ParseFail
       ELSE LET addrs == AddressesParse(Drop(rid.rest, 9), rid.rest[9], <<>>)
            IN IF ~addrs.ok THEN ParseFail
               ELSE IF Len(addrs.rest) < 1 + HASH_LEN * addrs.rest[1] THEN ParseFail
               ELSE LET npeers == addrs.rest[1]
                        options == MappingParse(Drop(addrs.rest, 1 + HASH_LEN * npeers))
                        siglen == SigLen(rid.v.signing_key.sig_type)
                    IN IF ~options.ok THEN ParseFail
                       ELSE IF Len(options.rest) < siglen THEN ParseFail
                       ELSE Parsed(
                              [router_id |-> rid.v,
                               published |-> FromBE(SubSeq(rid.rest, 1, 8)),
                               addresses |-> addrs.v,
                               peers |-> IF npeers = 0 THEN <<>>
                                         ELSE [i \in 1..npeers |->
                                                 SubSeq(addrs.rest, 2 + HASH_LEN * (i - 1),
                                                        1 + HASH_LEN * i)],
                               options |-> options.v,
                               signature |-> [some |-> TRUE,
                                              bytes |-> SubSeq(options.rest, 1, siglen)]],
                              Drop(options.rest, siglen))

\* ------------------------------------------------- values on the wire

\* Strings: the empty one, "a", "a;", "b", "=;", "1", and a style.
WireKeys == {<<>>, <<97>>, <<97, 59>>, <<98>>}
WireVals == {<<>>, <<61, 59>>, <<49>>}
WireStyle == <<78, 84, 67, 80, 50>>

\* Mappings of at most two keys, and one with a value of the greatest length.
WireMappings ==
    {m \in SUBSET (WireKeys \X WireVals) :
        /\ Cardinality(m) <= 2
        /\ \A p \in m : \A q \in m : p[1] = q[1] => p = q}
    \cup {{<<<<97>>, Fill(255, 120)>>, <<<<98>>, Fill(255, 59)>>}}

WireCertificates ==
    {NullCertificate, HiddenCertificate, BytesCertificate("HashCash", <<1, 2>>),
     BytesCertificate("Signed", <<>>), BytesCertificate("Multiple", <<0>>),
     CertificateFor("Ed25519").certificate}

WireAddrOptions ==
    {{}, {<<<<97>>, <<49>>>>}, {<<<<98>>, <<61, 59>>>>, <<<<97>>, <<>>>>}}

WireAddresses ==
    {WireAddress(cost, expiration, WireStyle, options) :
        cost \in {0, 255}, expiration \in {0, 500}, options \in WireAddrOptions}

WireRouterIdentities ==
    {WireRouterIdentity(sig_type, kid, 9) : sig_type \in {"DsaSha1", "Ed25519"}, kid \in {1, 2}}

WireAddrLists ==
    {<<>>, <<WireAddress(0, 0, WireStyle, {<<<<97>>, <<49>>>>})>>,
     <<WireAddress(255, 500, WireStyle, {<<<<98>>, <<61, 59>>>>, <<<<97>>, <<>>>>}),
       WireAddress(0, 0, WireStyle, {})>>}

\* Signed RouterInfos: made by new, set_addresses and sign, or read from a
\* file with the peers and options it holds.
WireRouterInfos ==
    {WireSign([RouterInfoSetAddresses(RouterInfoNew(rid, 500), addrs)
                  EXCEPT !.peers = peers, !.options = options]) :
        rid \in WireRouterIdentities, addrs \in WireAddrLists,
        peers \in {<<>>, <<[i \in 1..HASH_LEN |-> i - 1]>>},
        options \in {{}, {<<<<97, 59>>, <<49>>>>, <<<<97>>, <<61, 59>>>>}}}

WireTypes == {"Mapping", "Certificate", "RouterAddress", "RouterIdentity", "RouterInfo"}

WireValues(t) ==
    CASE t = "Mapping" -> WireMappings
      [] t = "Certificate" -> WireCertificates
      [] t = "RouterAddress" -> WireAddresses
      [] t = "RouterIdentity" -> WireRouterIdentities
      [] OTHER -> WireRouterInfos

\* The serialization of a value of the type.
WireGen(t, x) ==
    CASE t = "Mapping" -> GenMapping(x)
      [] t = "Certificate" -> GenCertificate(x)
      [] t = "RouterAddress" -> GenRouterAddress(x)
      [] t = "RouterIdentity" -> RouterIdentityToBytes(x)
      [] OTHER -> RouterInfoToBytes(x)

\* The parser of a value of the type.
WireParse(t, bs) ==
    CASE t = "Mapping" -> MappingParse(bs)
      [] t = "Certificate" -> CertificateParse(bs)
      [] t = "RouterAddress" -> RouterAddressParse(bs)
      [] t = "RouterIdentity" -> RouterIdentityParse(bs)
      [] OTHER -> RouterInfoParse(bs)

NoBytes == [made |-> FALSE, bytes |-> <<>>]
NoParse == [made |-> FALSE, ok |-> FALSE, v |-> <<>>]

\* A value of a type, its serialization, what the parser made of it, the
\* serialization of that, and what verify said of it.
WireData(t, x, ser, parsed, again, verified) ==
    [kind |-> "Wire", t |-> t, x |-> x, ser |-> ser, parsed |-> parsed, again |-> again,
     verified |-> verified]

\* The value is serialized.
Serialize ==
    /\ data.kind = "Wire"
    /\ ~data.ser.made
    /\ data' = [data EXCEPT !.ser = [made |-> TRUE, bytes |-> WireGen(data.t, data.x)]]
    /\ UNCHANGED hsvars

\* The bytes are parsed.
Parse ==
    /\ data.kind = "Wire"
    /\ data.ser.made
    /\ ~data.parsed.made
    /\ data' = [data EXCEPT !.parsed = [made |-> TRUE,
                                        ok |-> WireParse(data.t, data.ser.bytes).ok,
                                        v |-> WireParse(data.t, data.ser.bytes).v]]
    /\ UNCHANGED hsvars

\* The parsed value is serialized.
SerializeParsed ==
    /\ data.kind = "Wire"
    /\ data.parsed.made /\ data.parsed.ok
    /\ ~data.again.made
    /\ data' = [data EXCEPT !.again = [made |-> TRUE, bytes |-> WireGen(data.t, data.parsed.v)]]
    /\ UNCHANGED hsvars

\* The parsed RouterInfo is verified.
VerifyParsed ==
    /\ data.kind = "Wire"
    /\ data.t = "RouterInfo"
    /\ data.parsed.made /\ data.parsed.ok
    /\ data.verified = "none"
    /\ data' = [data EXCEPT !.verified = WireVerify(data.parsed.v)]
    /\ UNCHANGED hsvars

\* ------------------------------------------------- the data module's runs

\* ----------------------------------------------------------- timestamps

\* Readings of a wall clock in milliseconds since the epoch: on, just
\* before and just behind the seconds and the half seconds.
ClockReadings ==
    {1000 * k + r : k \in 0..MaxClock, r \in {0, 1, 499, 500, 501, 999}}

\* The clock of the initiator reads a and that of the responder b; once
\* both have made their timestamp, ts_a and ts_b are what they made.
ClocksData(a, b, called, ts_a, ts_b) ==
    [kind |-> "Clocks", a |-> a, b |-> b, called |-> called, ts_a |-> ts_a, ts_b |-> ts_b]

\* The initiator computes ts_a for its SessionRequest and the responder
\* ts_b for its SessionCreated, each from its own clock.
ReadClocks ==
    /\ data.kind = "Clocks"
    /\ ~data.called
    /\ data' = ClocksData(data.a, data.b, TRUE, Timestamp(data.a), Timestamp(data.b))
    /\ UNCHANGED hsvars

\* No handshake is made; the value under operation is a fresh RouterInfo, a
\* Hash, a string, the secrets of a router, or a value to serialize.
DataInit ==
    /\ ib = IBHandshakeNew
    /\ ob = NoOBHandshake
    /\ a2b = EmptyStream
    /\ b2a = EmptyStream
    /\ clock = 0
    /\ link = "None"
    /\ args = NoArgs
    /\ \/ LET ri == RouterInfoNew([signing_key |-> SigningPublicKey("K1")], clock)
          IN data = RouterInfoData(ri, Call("new", ri, "none", "none", "none", "none", NoAddress),
                                   NoCall)
       \/ \E h \in Hashes : data = HashData(h, NoXor, NoXor)
       \/ \E str \in Strings : data = StringData(str, FALSE, <<>>)
       \/ \E t \in SigTypes : data = SecretsData(t, NoRouterIdentity)
       \/ \E t \in WireTypes : \E x \in WireValues(t) :
             data = WireData(t, x, NoBytes, NoParse, NoBytes, "none")
       \/ \E a \in ClockReadings, b \in ClockReadings : data = ClocksData(a, b, FALSE, 0, 0)

DataNext ==
    \/ SetAddresses
    \/ Sign
    \/ Verify
    \/ AddressCall
    \/ Xor
    \/ ToCsvCall
    \/ FromSecrets
    \/ Serialize
    \/ Parse
    \/ SerializeParsed
    \/ VerifyParsed
    \/ ReadClocks

DataSpec == DataInit /\ [][DataNext]_vars

\* ------------------------------------------------------------------ claims

\* What a SessionRequest at the head of the stream to the responder says.
HasSessionRequest == a2b.segs # <<>> /\ a2b.segs[1].kind = "SessionRequest"

Advertised == a2b.segs[1].body.pt

\* The responder has taken the whole SessionRequest and all its padding.
IBHasReadRequest ==
    /\ HasSessionRequest
    /\ a2b.taken >= SESSION_REQUEST_CT_LEN + Advertised.padlen

\* The SessionConfirmed buffers in the stream to the responder.
Confirmed == {i \in 1..Len(a2b.segs) : a2b.segs[i].kind = "SessionConfirmed"}

BothReady == ob.res = "Ready" /\ ib.res = "Ready"

\* C1: when both handshakes have completed and finalize_ask gave both ends
\* the same pair of secrets, the initiator's (ek0, ek1, eiv) are the
\* responder's (dk0, dk1, div) and the initiator's (dk0, dk1, div) are the
\* responder's (ek0, ek1, eiv).
C1_RoleSwappedKeys ==
    (BothReady /\ ob.codec.hs = ib.codec.hs) =>
        /\ <<ob.codec.ek0, ob.codec.ek1, ob.codec.eiv>> = <<ib.codec.dk0, ib.codec.dk1, ib.codec.div>>
        /\ <<ob.codec.dk0, ob.codec.dk1, ob.codec.div>> = <<ib.codec.ek0, ib.codec.ek1, ib.codec.eiv>>

C1_Witness == BothReady /\ ob.codec.some /\ ib.codec.some /\ ob.codec.hs = ib.codec.hs

\* C2: an honest pair on a reliable connection, with the advertised key and
\* IV the responder's own and both futures polled fairly: once the initiator
\* exists, both handshakes eventually resolve to Ready.
C2_BothEventuallyReady == (ob.created = "Ok") ~> BothReady

IsPrefix(p, q) == Len(p) <= Len(q) /\ \A i \in 1..Len(p) : p[i] = q[i]

\* C3: each handshake goes through its states in the one fixed order, none
\* skipped, repeated or gone back to: the states it has been in are an
\* initial piece of that order ending in its current state, and it is Ready
\* only having been in all of them; every other way out of a state is a
\* failure of the poll.
C3_LinearOrder ==
    /\ IsPrefix(ib.path, IBOrder) /\ ib.path[Len(ib.path)] = ib.state
    /\ IsPrefix(ob.path, OBOrder) /\ ob.path[Len(ob.path)] = ob.state
    /\ ib.res = "Ready" => ib.path = IBOrder
    /\ ob.res = "Ready" => ob.path = OBOrder

C3_Witness == ib.res = "Ready" /\ ib.path = IBOrder /\ ob.res = "Ready" /\ ob.path = OBOrder

\* C4: the messages are on the wire in the order 1, 2, 3: the responder has
\* handed no byte of SessionCreated to the stream before it has taken the
\* whole SessionRequest and its padding, the initiator none of
\* SessionConfirmed before it has taken the whole SessionCreated and its
\* padding, and the responder is Ready only having taken the whole
\* SessionConfirmed.
C4_MessageOrder ==
    /\ (b2a.segs # <<>>) => IBHasReadRequest
    /\ (Confirmed # {}) =>
          /\ b2a.segs # <<>>
          /\ b2a.taken = SESSION_CREATED_CT_LEN + b2a.segs[1].body.pt.padlen
          /\ b2a.taken = b2a.flushed
    /\ (ib.res = "Ready") =>
          /\ Confirmed # {}
          /\ a2b.taken = SegStart(a2b.segs, Len(a2b.segs) + 1)

C4_Witness ==
    /\ ib.res = "Ready"
    /\ Confirmed # {}
    /\ Advertised.padlen > 0
    /\ b2a.segs[1].body.pt.padlen > 0

\* C5: a SessionRequest whose plaintext carries a version other than 2 ends
\* the responder with UnsupportedVersion in state SessionRequest: it takes
\* no byte behind the 64 of the message, hands no byte to the stream and
\* yields no transport.
C5_UnsupportedVersion ==
    (HasSessionRequest /\ Advertised.ver # 2) =>
        /\ ib.state = "SessionRequest"
        /\ a2b.taken <= SESSION_REQUEST_CT_LEN
        /\ b2a.segs = <<>> /\ b2a.flushed = 0
        /\ ib.res # "Ready" /\ ~ib.codec.some
        /\ (a2b.taken = SESSION_REQUEST_CT_LEN /\ a2b.segs[1].body.ok)
              => ib.res = "UnsupportedVersion"

C5_Witness ==
    /\ HasSessionRequest
    /\ Advertised.ver = 3
    /\ Advertised.padlen > 0
    /\ ib.res = "UnsupportedVersion"

\* The responder waits for bytes that will not come: the stream has ended
\* and holds fewer bytes than the read still needs.
IBShortAtEof ==
    /\ ib.res = "Pending"
    /\ ib.fut.op = "read"
    /\ a2b.closed
    /\ a2b.flushed - a2b.taken < ib.fut.len - ib.fut.pos

\* What the responder has taken when it is in a state.
IBTakenInState ==
    /\ ib.state = "SessionRequestPadding" => a2b.taken >= SESSION_REQUEST_CT_LEN
    /\ ib.state \in {"SessionCreated", "SessionConfirmed"} => IBHasReadRequest
    /\ ib.res = "Ready" =>
          a2b.taken = SESSION_REQUEST_CT_LEN + Advertised.padlen
                      + IBSessionConfirmedLen(Advertised.sclen)

\* C6: when the stream ends before the responder has the byte count it waits
\* for (the 64 bytes of SessionRequest, the padding, or SessionConfirmed),
\* the poll that finds it so fails with IncompleteHandshake; a future that
\* stopped with its read buffer not full stopped that way; the responder is
\* in no state without having taken what the states before it read, and
\* yields no transport.
C6_IncompleteHandshake ==
    /\ [](/\ (ib.res # "Pending" /\ ib.fut.op = "read" /\ ib.fut.pos < ib.fut.len)
               => (ib.res = "IncompleteHandshake" /\ a2b.closed /\ a2b.taken = a2b.flushed)
          /\ (ib.res = "IncompleteHandshake") => ~ib.codec.some
          /\ IBTakenInState)
    /\ [][(IBShortAtEof /\ ib' # ib) =>
             (ib'.res = "IncompleteHandshake" /\ ib'.state = ib.state /\ ~ib'.codec.some)]_vars

C6_Witness ==
    /\ ib.res = "IncompleteHandshake"
    /\ ib.state = "SessionRequestPadding"
    /\ ib.fut.pos < ib.fut.len

\* C7: every failure of a handshake is the error result of its future: a
\* SessionRequest, SessionCreated or SessionConfirmed that does not verify
\* ends the poll with an error, never by an abort.
C7_FailuresAreErrors == ib.res # "PanicMac" /\ ob.res # "PanicMac"

\* C8: a SessionRequest (of version 2) that advertises a message 3 length
\* above NTCP2_MTU - 16 fails the responder with ParseError or
\* MessageTooLarge in state SessionRequest, with no byte taken behind the
\* message.
C8_OversizeRejected ==
    (/\ HasSessionRequest
     /\ a2b.segs[1].body.ok
     /\ Advertised.ver = 2
     /\ Advertised.sclen > NTCP2_MTU - 16
     /\ a2b.taken >= SESSION_REQUEST_CT_LEN) =>
        /\ ib.res \in {"ParseError", "MessageTooLarge"}
        /\ ib.state = "SessionRequest"
        /\ a2b.taken = SESSION_REQUEST_CT_LEN

\* C9 as stated: the SessionConfirmed ciphertext on the wire has exactly the
\* advertised message 3 length: the initiator writes sc_len bytes and the
\* responder reads message3_length bytes.
C9_Original ==
    /\ \A i \in Confirmed : a2b.segs[i].len = ob.sc_len /\ a2b.segs[i].len = Advertised.sclen
    /\ (ib.state = "SessionConfirmed") => ib.fut.len = ib.sclen

\* C9 amended: the SessionConfirmed ciphertext on the wire is 48 bytes longer
\* than the advertised message 3 length: the initiator advertises sc_len and
\* writes sc_len + 48 bytes, the responder stores the advertised length and
\* reads that many bytes plus 48.
C9_ConfirmedLength ==
    /\ \A i \in Confirmed :
          /\ Advertised.sclen = ob.sc_len
          /\ a2b.segs[i].len = ob.sc_len + 48
          /\ ob.state = "SessionConfirmed" /\ ob.fut.len = ob.sc_len + 48
    /\ (ib.state = "SessionConfirmed") =>
          /\ ib.sclen = Advertised.sclen
          /\ ib.fut.len = ib.sclen + 48

C9_Witness ==
    /\ Confirmed # {}
    /\ ob.res = "Ready"
    /\ ib.state = "SessionConfirmed"
    /\ ib.fut.pos = ib.fut.len

\* C10: when OBHandshake::new does not succeed, the connect closure has not
\* been invoked and no byte is written: the dial happens, and bytes reach
\* the stream, only when new has returned a handshake.
C10_NoDialOnSetupFailure ==
    /\ (ob.created \in {"NoNtcp2Address", "MessageTooLarge", "InvalidKey", "InvalidIV",
                         "PanicAddr", "PanicIv"})
          => (link = "None" /\ a2b = EmptyStream /\ ob.state = "Connecting" /\ ob.fut = NoFuture)
    /\ (link # "None") => ob.created = "Ok"

C10_Witness == ob.created = "MessageTooLarge" /\ link = "None" /\ a2b = EmptyStream

C10_WitnessNoAddress == ob.created = "NoNtcp2Address" /\ link = "None"

\* An address qualifies for outbound setup: it has the style, its "v" split
\* on commas contains "2", and it has "s" and "i".
Qualifies(a, style) ==
    a.style = style /\ "2" \in ToCsv(a.v) /\ a.s # "none" /\ a.i # "none"

\* The first qualifying address of the style in the list, if any.
FirstQualifying(addrs, style) ==
    LET q == {i \in 1..Len(addrs) : Qualifies(addrs[i], style)}
    IN IF q = {} THEN NoAddress ELSE addrs[CHOOSE i \in q : \A j \in q : i <= j]

\* C11: OBHandshake::new selects the first qualifying address of style NTCP2,
\* the first qualifying one of style NTCP only when there is none of NTCP2,
\* and fails with NoNtcp2Address when neither style has one.
C11_SelectsFirstQualifying ==
    [][(ob.created = "None" /\ ob'.created \notin {"None", "Foreign"}) =>
          LET first == FirstQualifying(args.peer_addrs, NTCP2_STYLE)
              e == IF first # NoAddress THEN first
                   ELSE FirstQualifying(args.peer_addrs, NTCP_STYLE)
          IN IF e = NoAddress
             THEN ob'.created = "NoNtcp2Address"
             ELSE ob'.created # "NoNtcp2Address" /\ ob'.ra = e]_vars

\* The last call on the RouterInfo was address.
AddressCalled == IsRouterInfo /\ data.last.op = "address"

\* The places of the addresses that have the style of the last call.
Styled == {i \in 1..Len(data.ri.addresses) : data.ri.addresses[i].style = data.last.style}

\* The places of the addresses that have the style of the last call and an
\* IPv4 endpoint and that its filter accepts.
Matching ==
    {i \in Styled : /\ Addr(data.ri.addresses[i]) = "v4"
                    /\ FilterOf(data.last.filter)[data.ri.addresses[i]]}

\* C12: address(style, filter) returns the earliest address, in the order
\* given to set_addresses, that has the style and an IPv4 host and that the
\* filter accepts, and absent when the list is empty or has no such address;
\* the call leaves the RouterInfo unchanged.
C12_AddressReturnsEarliest ==
    /\ [](AddressCalled =>
            IF Matching = {}
            THEN data.last.ret = "None"
            ELSE /\ data.last.ret = "Some"
                 /\ data.last.ra = data.ri.addresses[CHOOSE i \in Matching :
                                                        \A j \in Matching : i <= j])
    /\ [][(IsRouterInfo /\ data'.last.op = "address") => data'.ri = data.ri]_vars

\* C13: address(style, filter) skips an address of the style whose host or
\* port is missing or does not parse: the call does not fail, does not
\* return such an address, and returns absent when no other address has the
\* style.
C13_SkipsUnparseable ==
    (AddressCalled /\ \E i \in Styled : Addr(data.ri.addresses[i]) = "bad") =>
        /\ data.last.ret \in {"Some", "None"}
        /\ data.last.ret = "Some" => Addr(data.last.ra) = "v4"
        /\ (\A i \in Styled : Addr(data.ri.addresses[i]) = "bad") => data.last.ret = "None"

\* C14: the operation that changes the addresses clears the signature: after
\* set_addresses the signature is absent, verify called next returns the
\* missing-signature error, and in every state a signature that is present
\* was computed over the current values of the fields.
C14_SignatureCleared ==
    IsRouterInfo =>
        /\ data.last.op = "set_addresses" => ~data.ri.signature.some
        /\ (data.last.op = "verify" /\ data.prev.op = "set_addresses")
              => data.last.ret = "NoSignature"
        /\ data.ri.signature.some => data.ri.signature.msg = SignatureBytes(data.ri)

C14_Witness ==
    /\ IsRouterInfo
    /\ data.last.op = "verify"
    /\ data.prev.op = "set_addresses"
    /\ data.prev.signed
    /\ data.ri.addresses # <<>>
    /\ data.last.ret = "NoSignature"

\* C15: a RouterInfo from RouterInfo::new has no signature and verify on it
\* returns the missing-signature error; when the last operation before
\* verify is sign with the signing private key of router_id, whatever
\* set_addresses and sign calls came before, the signature is present and
\* verify returns Ok.
C15_SignThenVerify ==
    IsRouterInfo =>
        /\ data.last.op = "new" => ~data.ri.signature.some
        /\ (data.last.op = "verify" /\ data.prev.op = "new") => data.last.ret = "NoSignature"
        /\ (data.last.op = "sign" /\ SigningPublicKey(data.last.by) = data.ri.router_id.signing_key)
              => data.ri.signature.some
        /\ (/\ data.last.op = "verify"
            /\ data.prev.op = "sign"
            /\ SigningPublicKey(data.prev.by) = data.ri.router_id.signing_key)
              => data.last.ret = "Ok"

C15_Witness ==
    /\ IsRouterInfo
    /\ data.last.op = "verify"
    /\ data.prev.op = "sign"
    /\ data.prev.by = "K1"
    /\ data.ri.addresses # <<>>
    /\ data.last.ret = "Ok"

\* C17: Hash::xor is an involution byte by byte: xor with the same hash twice
\* restores the hash, xor of a hash with itself gives the all-zero hash, xor
\* with the all-zero hash changes nothing, and the argument is not modified.
C17_XorInvolution ==
    (data.kind = "Hash" /\ data.last.made) =>
        /\ data.h = data.last.after
        /\ data.last.other = data.last.before => data.last.after = ZeroHash
        /\ data.last.other = ZeroHash => data.last.after = data.last.before
        /\ (data.prev.made /\ data.prev.other = data.last.other)
              => data.last.after = data.prev.before
        /\ data.last.other_after = data.last.other

C17_Witness ==
    /\ data.kind = "Hash"
    /\ data.last.made /\ data.prev.made
    /\ data.prev.other = data.last.other
    /\ data.last.other[HASH_LEN] = HASH_LEN - 1
    /\ data.prev.before = HashOf(255)
    /\ data.h = HashOf(255)

\* The commas of a string.
Commas(str) == Cardinality({i \in 1..Len(str) : str[i] = ","})

RECURSIVE Join(_)
\* The fields joined with ",".
Join(fields) ==
    IF Len(fields) = 1 THEN fields[1] ELSE fields[1] \o <<",">> \o Join(Tail(fields))

\* C18: to_csv returns the fields between the commas in their order: one
\* more field than the string has commas, the string itself when it has no
\* comma, and the fields joined with "," are the string.
C18_ToCsvFields ==
    (data.kind = "String" /\ data.called) =>
        /\ Len(data.csv) = Commas(data.str) + 1
        /\ Commas(data.str) = 0 => data.csv = <<data.str>>
        /\ Join(data.csv) = data.str

C18_Witness ==
    /\ data.kind = "String"
    /\ data.called
    /\ data.str = <<"a", ",", ",">>
    /\ data.csv = << <<"a">>, <<>>, <<>> >>

\* C19: from_secrets chooses the certificate by the signature type: Null for
\* DsaSha1, KeyCertificate(Ed25519, ElGamal2048, empty, empty) for Ed25519,
\* an error for every other type; the padding is absent exactly when
\* pad_len(ElGamal2048) of the type is 0 and has that many bytes otherwise.
C19_CertificateByType ==
    (data.kind = "Secrets" /\ data.rid # NoRouterIdentity) =>
        /\ data.sig_type = "DsaSha1" =>
              data.rid.r = "Ok" /\ data.rid.certificate = NullCertificate
        /\ data.sig_type = "Ed25519" =>
              /\ data.rid.r = "Ok"
              /\ data.rid.certificate =
                    [cert |-> "Key", sig_type |-> "Ed25519", enc_type |-> "ElGamal2048",
                     sig_data |-> <<>>, enc_data |-> <<>>]
        /\ data.sig_type \notin {"DsaSha1", "Ed25519"} => data.rid.r = "Panic"
        /\ data.rid.r = "Ok" =>
              /\ ~data.rid.padding.some <=> PadLen(data.sig_type) = 0
              /\ data.rid.padding.some => data.rid.padding.len = PadLen(data.sig_type)

C19_Witness ==
    /\ data.kind = "Secrets"
    /\ data.sig_type = "Ed25519"
    /\ data.rid.r = "Ok"
    /\ data.rid.padding.some
    /\ data.rid.padding.len = PadLen("Ed25519")

\* C20: a wall clock that moves backwards between the recording of the
\* timer and the computing of the round trip does not stop the handshake:
\* neither poll aborts on the elapsed time, on the responder or the initiator.
C20_ClockBackwardsHarmless == ib.res # "PanicClock" /\ ob.res # "PanicClock"

\* C16: serialization round-trips: what the parser makes of the bytes of a
\* RouterIdentity, RouterAddress, signed RouterInfo, Mapping or Certificate
\* is that value; the parsed value serializes to the same bytes, and the
\* parsed RouterInfo verifies.
C16_RoundTrip ==
    data.kind = "Wire" =>
        /\ data.parsed.made => data.parsed.ok /\ data.parsed.v = data.x
        /\ data.again.made => data.again.bytes = data.ser.bytes
        /\ data.verified # "none" => data.verified = "Ok"

C16_Witness ==
    /\ data.kind = "Wire"
    /\ data.t = "RouterInfo"
    /\ data.x.router_id.signing_key.sig_type = "Ed25519"
    /\ Len(data.x.addresses) = 2
    /\ Cardinality(data.x.options) = 2
    /\ Len(data.ser.bytes) > RI_BASE_LEN
    /\ data.again.made
    /\ data.verified = "Ok"

\* The responder's poll has read the whole of SessionConfirmed in this step
\* and has left with a result.
IBReadsConfirmed ==
    /\ ib.res = "Pending"
    /\ ib'.res # "Pending"
    /\ ib'.state = "SessionConfirmed"
    /\ ib'.fut.op = "read" /\ ib'.fut.pos = ib'.fut.len

\* The bytes that read has yielded.
ConfirmedRead == BytesAt(a2b.segs, a2b'.taken - ib'.fut.len, ib'.fut.len)

\* C21: once the SessionConfirmed the responder has read verifies under its
\* transcript and the embedded RouterInfo parses, the responder is Ready
\* (or stops on the elapsed time) whatever RouterInfo::verify says of the
\* RouterInfo: the result has no case for the signature.
C21_CompletesUnverified ==
    [][(/\ IBReadsConfirmed
        /\ NoiseReadOk(ib.noise, ConfirmedRead, "SessionConfirmed")
        /\ SessionConfirmedParse(ConfirmedRead.body.pt))
          => ib'.res = IF ElapsedOk(ib.timer, clock) THEN "Ready" ELSE "PanicClock"]_vars

C21_Witness ==
    /\ ib.res = "Ready"
    /\ ib.codec.some
    /\ \E i \in Confirmed : ~a2b.segs[i].body.pt.ri.verifies

\* What a poll of the responder, and of the initiator, would do now.
IBPolledNow(sc_padlen, j) ==
    IBRun([ib |-> ib, rd |-> a2b, wr |-> b2a, ret |-> "Continue"], clock, sc_padlen, j)

OBPolledNow(padlen, j) ==
    OBRun([ob |-> ob, rd |-> b2a, wr |-> a2b, ret |-> "Continue"], link, clock, padlen, j)

\* C23: once a poll has left with an error or with Ready, the handshake
\* holds no Noise session, and a further poll takes no byte from the
\* connection and hands none to it.
C23_NothingSurvives ==
    /\ (ib.res # "Pending") =>
          /\ ~ib.noise.some
          /\ \A p \in PadLens, j \in Cuts :
                IBPolledNow(p, j).rd = a2b /\ IBPolledNow(p, j).wr = b2a
    /\ (ob.created = "Ok" /\ ob.res # "Pending") =>
          /\ ~ob.noise.some
          /\ \A p \in PadLens, j \in Cuts :
                OBPolledNow(p, j).rd = b2a /\ OBPolledNow(p, j).wr = a2b

C23_Witness ==
    /\ ib.res = "IncompleteHandshake"
    /\ ob.res = "IoError"
    /\ ~ib.noise.some /\ ~ob.noise.some
    /\ ib.state = "SessionConfirmed"
    /\ ob.state = "SessionConfirmed"

\* The read the responder, and the initiator, waits for cannot complete: the
\* stream is open and holds fewer bytes than the read still needs; for the
\* initiator also: the dial has not resolved.
IBReadBlocked ==
    /\ IBAlive
    /\ ib.fut.op = "read"
    /\ ~a2b.closed
    /\ a2b.flushed - a2b.taken < ib.fut.len - ib.fut.pos

OBBlocked ==
    /\ OBAlive
    /\ \/ ob.state = "Connecting" /\ link = "Dialing"
       \/ /\ ob.state # "Connecting"
          /\ ob.fut.op = "read"
          /\ ~b2a.closed
          /\ b2a.flushed - b2a.taken < ob.fut.len - ob.fut.pos

\* C24: a poll that finds the I/O operation of the current state not ready
\* returns NotReady with the handshake in the same state, the session back
\* in its field and unchanged (no read_message, write_message or
\* set_h_data), sclen, sc_len and sc_buf unchanged and no buffer handed to
\* the stream; a handshake that has not resolved holds its session between
\* two polls.
C24_NotReadyChangesNothing ==
    /\ [](/\ IBAlive => ib.noise.some
          /\ OBAlive => ob.noise.some)
    /\ [][/\ (IBReadBlocked /\ ib' # ib) => (ib'.res = "Pending" /\ ib'.state = ib.state)
          /\ (OBBlocked /\ ob' # ob) => (ob'.res = "Pending" /\ ob'.state = ob.state)
          /\ (IBAlive /\ ib' # ib /\ ib'.res = "Pending" /\ ib'.state = ib.state) =>
                /\ ib'.noise = ib.noise
                /\ ib'.sclen = ib.sclen
                /\ b2a'.segs = b2a.segs
          /\ (OBAlive /\ ob' # ob /\ ob'.res = "Pending" /\ ob'.state = ob.state) =>
                /\ ob'.noise = ob.noise
                /\ ob'.sc_len = ob.sc_len /\ ob'.sc_buf = ob.sc_buf
                /\ a2b'.segs = a2b.segs]_vars

C24_Witness ==
    /\ IBAlive /\ ib.noise.some
    /\ ib.state = "SessionRequest"
    /\ ib.fut.pos > 0 /\ ib.fut.pos < ib.fut.len
    /\ OBAlive /\ ob.noise.some
    /\ ob.state = "SessionRequest"
    /\ ob.fut.pos < ob.fut.len

\* The number of padding bytes that follow message i of a stream.
PadAfter(segs, i) ==
    IF i < Len(segs) /\ segs[i + 1].kind = "pad" THEN segs[i + 1].len ELSE 0

\* The padding length announced in the first message of a stream.
Announced(s) == s.segs[1].body.pt.padlen

\* Message 1 or 2 on stream s is 64 bytes that announce a padding length in
\* 0..15 and are followed by that many bytes of padding.
PaddedAsAnnounced(s, kind, ct) ==
    \A i \in 1..Len(s.segs) :
        s.segs[i].kind = kind =>
            /\ i = 1
            /\ s.segs[i].len = ct
            /\ Announced(s) \in 0..15
            /\ PadAfter(s.segs, i) = Announced(s)

\* C25: the padding length in the plaintext of SessionRequest and of
\* SessionCreated is the number of bytes appended behind the 64-byte
\* ciphertext and lies in 0..15; the sender's write_all has 64 + padding
\* length bytes; the receiver's first read_exact has 64 bytes and its second
\* has padding length bytes, after which it has taken 64 + padding length
\* bytes from the stream.
C25_PaddingAsAnnounced ==
    /\ PaddedAsAnnounced(a2b, "SessionRequest", SESSION_REQUEST_CT_LEN)
    /\ PaddedAsAnnounced(b2a, "SessionCreated", SESSION_CREATED_CT_LEN)
    /\ (ob.created = "Ok" /\ ob.state = "SessionRequest") =>
          /\ ob.fut.op = "write"
          /\ ob.fut.len = SESSION_REQUEST_CT_LEN + Announced(a2b)
    /\ ib.state = "SessionRequest" =>
          (ib.fut.op = "read" /\ ib.fut.len = SESSION_REQUEST_CT_LEN)
    /\ ib.state = "SessionRequestPadding" =>
          (ib.fut.op = "read" /\ ib.fut.len = Announced(a2b))
    /\ ib.state = "SessionCreated" =>
          /\ ib.fut.op = "write"
          /\ ib.fut.len = SESSION_CREATED_CT_LEN + Announced(b2a)
          /\ a2b.taken = SESSION_REQUEST_CT_LEN + Announced(a2b)
    /\ (ob.created = "Ok" /\ ob.state = "SessionCreated") =>
          (ob.fut.op = "read" /\ ob.fut.len = SESSION_CREATED_CT_LEN)
    /\ (ob.created = "Ok" /\ ob.state = "SessionCreatedPadding") =>
          (ob.fut.op = "read" /\ ob.fut.len = Announced(b2a))
    /\ (ob.created = "Ok" /\ ob.state = "SessionConfirmed") =>
          b2a.taken = SESSION_CREATED_CT_LEN + Announced(b2a)

C25_Witness ==
    /\ ob.created = "Ok"
    /\ ob.state = "SessionConfirmed"
    /\ ib.state = "SessionConfirmed"
    /\ Announced(a2b) > 0
    /\ Announced(b2a) > 0
    /\ PadAfter(a2b.segs, 1) = Announced(a2b)
    /\ PadAfter(b2a.segs, 1) = Announced(b2a)

\* What a handshake has mixed so far: the transcript of its session, or,
\* once it has completed, the transcript its keys were derived from.
IBTranscript == IF ib.noise.some THEN ib.noise.h ELSE ib.codec.hs

OBTranscript == IF ob.noise.some THEN ob.noise.h ELSE ob.codec.hs

\* The Noise operations and set_h_data calls of a handshake in their order,
\* behind the first entry, the keys the session starts from.
MixOrder == <<"SessionRequest", "h2", "SessionCreated", "h3", "SessionConfirmed">>

InMixOrder(h) ==
    /\ Len(h) <= Len(MixOrder) + 1
    /\ \A i \in 2..Len(h) : h[i].m = MixOrder[i - 1]

\* The padding behind the first message of stream s, as it is in the stream.
PadBytes(s) == IF PadAfter(s.segs, 1) = 0 THEN EmptyBytes.body ELSE s.segs[2].body

\* C26: on each side the transcript is the Noise operation on message 1,
\* set_h_data(2, p), the Noise operation on message 2, set_h_data(3, q), the
\* Noise operation on message 3, each once and in this order; the receiver
\* mixes the bytes it read behind the message, the sender the bytes it
\* appended, and these are the same bytes, empty or not, unless they were
\* altered on their way.
C26_PaddingMixedInOrder ==
    /\ InMixOrder(IBTranscript)
    /\ InMixOrder(OBTranscript)
    /\ Len(IBTranscript) >= 3 => IBTranscript[3].d = PadBytes(a2b)
    /\ Len(OBTranscript) >= 5 => OBTranscript[5].d = PadBytes(b2a)
    /\ Len(OBTranscript) >= 3 =>
          /\ OBTranscript[3].d = Padding("ob", Announced(a2b)).body
          /\ PadBytes(a2b).who # "altered" => OBTranscript[3].d = PadBytes(a2b)
    /\ Len(IBTranscript) >= 5 =>
          /\ IBTranscript[5].d = Padding("ib", Announced(b2a)).body
          /\ PadBytes(b2a).who # "altered" => IBTranscript[5].d = PadBytes(b2a)
    /\ ib.res = "Ready" => Len(IBTranscript) = Len(MixOrder) + 1
    /\ ob.res = "Ready" => Len(OBTranscript) = Len(MixOrder) + 1

C26_Witness ==
    /\ BothReady
    /\ Announced(a2b) = 0
    /\ Announced(b2a) > 0
    /\ Len(IBTranscript) = Len(MixOrder) + 1
    /\ IBTranscript[3].d = EmptyBytes.body
    /\ IBTranscript[5].d = b2a.segs[2].body
    /\ \A i \in 2..Len(IBTranscript) : IBTranscript[i] = OBTranscript[i]

\* C27: ts_a and ts_b are the whole seconds of the clock reading plus 500 ms,
\* which is the reading rounded to the nearest second (a half second rounds
\* up); two clocks less than 500 ms apart, one before a full second and the
\* other on or behind it, make the same timestamp.
C27_TimestampRounds ==
    (data.kind = "Clocks" /\ data.called) =>
        /\ 1000 * data.ts_a <= data.a + 500 /\ data.a + 500 < 1000 * data.ts_a + 1000
        /\ 1000 * data.ts_b <= data.b + 500 /\ data.b + 500 < 1000 * data.ts_b + 1000
        /\ 1000 * data.ts_a - data.a \in -499..500
        /\ 1000 * data.ts_b - data.b \in -499..500
        /\ \A k \in 1..(MaxClock + 1) :
              /\ (data.a < 1000 * k /\ 1000 * k <= data.b /\ data.b - data.a < 500)
                    => (data.ts_a = k /\ data.ts_b = k)
              /\ (data.b < 1000 * k /\ 1000 * k <= data.a /\ data.a - data.b < 500)
                    => (data.ts_a = k /\ data.ts_b = k)

C27_Witness ==
    /\ data.kind = "Clocks"
    /\ data.called
    /\ data.a = 999
    /\ data.b = 1001
    /\ data.ts_a = 1
    /\ data.ts_b = 1

\* The number of bytes handed to a stream.
Handed(s) == SegStart(s.segs, Len(s.segs) + 1)

\* C28: the SessionConfirmed the initiator writes has as many bytes as the
\* responder's read in state SessionConfirmed waits for, the advertised
\* length plus 48; once the initiator is done the stream holds exactly what
\* that read still needs, and when both are done every byte handed to either
\* stream has been sent and read.
C28_ConfirmedCountAgrees ==
    /\ \A i \in Confirmed :
          /\ a2b.segs[i].len = IBSessionConfirmedLen(Advertised.sclen)
          /\ ob.fut.len = a2b.segs[i].len
          /\ ib.state = "SessionConfirmed" =>
                (ib.fut.op = "read" /\ ib.fut.len = a2b.segs[i].len)
    /\ (ob.res = "Ready" /\ ib.state = "SessionConfirmed") =>
          a2b.flushed - a2b.taken = ib.fut.len - ib.fut.pos
    /\ BothReady =>
          /\ a2b.flushed = Handed(a2b) /\ a2b.taken = Handed(a2b)
          /\ b2a.flushed = Handed(b2a) /\ b2a.taken = Handed(b2a)

C28_Witness ==
    /\ BothReady
    /\ Confirmed # {}
    /\ ob.sc_buf.len = NTCP2_MTU - 64
    /\ ib.fut.len = NTCP2_MTU
    /\ a2b.taken = Handed(a2b)
    /\ a2b.taken > NTCP2_MTU

\* C29: every own RouterInfo that OBHandshake::new accepts can be sent: the
\* SessionRequest advertises sc_len as it is stored, and the initiator's
\* poll never aborts because message 3 does not fit the NTCP2_MTU-byte
\* buffer Noise writes it to.
C29_AcceptedCanBeSent ==
    /\ (ob.created = "Ok" /\ HasSessionRequest) => Advertised.sclen = ob.sc_len
    /\ ob.created = "Ok" => ob.res # "PanicBuffer"

\* C30: OBHandshake::new returns an Err, and does not dial, when "s" or "i"
\* of the selected address is not valid base64 or "i" does not decode to 16
\* bytes, and no peer RouterInfo makes it abort.
C30_SetupFailsWithErr ==
    (ob.created # "None" /\ ob.created # "Foreign") =>
        /\ ob.created \in {"Ok", "NoNtcp2Address", "InvalidKey", "InvalidIV", "MessageTooLarge"}
        /\ (~Base64Ok(ob.ra.s) \/ ~Base64Ok(ob.ra.i) \/ ob.ra.i = "iv8") =>
              (ob.created \in {"InvalidKey", "InvalidIV"} /\ link = "None")

\* ------------------------------------------------ two handshakes at once

\* A handshake with the two directions of its own connection.
Run(h, rd, wr) == [ib |-> h, rd |-> rd, wr |-> wr, ret |-> "Continue"]

\* The stream on which a peer has sent its SessionRequest.
RequestStream(ver, sclen, padlen, clk) ==
    LET pt == GenSessionRequest(ver, padlen, sclen, Timestamp(clk))
        msg == NoiseMsg(IBHandshakeNew.noise, "SessionRequest", SESSION_REQUEST_CT_LEN, pt)
    IN [EmptyStream EXCEPT !.segs = Written(msg, Padding("peer", padlen)),
                           !.flushed = SESSION_REQUEST_CT_LEN + padlen]

\* The run after its peer, having read SessionCreated and its padding, has
\* sent a SessionConfirmed of the length it advertised.
PeerConfirms(w) ==
    LET pt == [ri |-> [len |-> RI_BASE_LEN, wellformed |-> TRUE, verifies |-> TRUE],
               padlen |-> 0, len |-> w.ib.sclen - 16]
        msg == NoiseMsg(w.ib.noise, "SessionConfirmed", IBSessionConfirmedLen(w.ib.sclen), pt)
    IN [w EXCEPT !.rd.segs = Append(@, msg), !.rd.flushed = @ + msg.len]

\* The peer of a run can send its SessionConfirmed: the responder waits for
\* it and the peer has read all of SessionCreated.
AwaitsConfirmed(w) ==
    /\ w.ib.res = "Pending"
    /\ w.ib.state = "SessionConfirmed"
    /\ w.rd.flushed = w.rd.taken
    /\ \A i \in 1..Len(w.rd.segs) : w.rd.segs[i].kind # "SessionConfirmed"

\* One call of poll on a run.
PollOf(w, clk, sc_padlen, j) == [IBRun(w, clk, sc_padlen, j) EXCEPT !.ret = "Continue"]

\* A poll that stores the advertised length in a place all handshakes
\* share: what C22 rules out.
OtherAfterSharedSclen(other, polled) == [other EXCEPT !.ib.sclen = polled.ib.sclen]

\* What a poll of one handshake does to another: poll has its own handshake
\* by &mut self and reaches no other.
OtherAfter(other, polled) == other

\* Two responders of one router, each on its own connection; the first is
\* in ib, a2b and b2a, the second in second; alone1 and alone2 are the same
\* handshakes given the same input with no other handshake polled.
PairData(second, alone1, alone2) ==
    [kind |-> "Pair", second |-> second, alone1 |-> alone1, alone2 |-> alone2]

First == Run(ib, a2b, b2a)

PairInit ==
    /\ ib = IBHandshakeNew
    /\ ob = [NoOBHandshake EXCEPT !.created = "Foreign"]
    /\ b2a = EmptyStream
    /\ clock \in ClockValues
    /\ link = "None"
    /\ args = NoArgs
    /\ \E ver \in ForeignVersions, padlen \in PadLens :
          a2b = RequestStream(ver, RI_BASE_LEN + 16, padlen, clock)
    /\ \E ver \in ForeignVersions, padlen \in PadLens :
          LET w == Run(IBHandshakeNew, RequestStream(ver, RI_BASE_LEN + 32, padlen, clock),
                       EmptyStream)
          IN data = PairData(w, First, w)

\* The first handshake is polled.
PairPollFirst ==
    /\ data.kind = "Pair"
    /\ ib.res = "Pending"
    /\ \E sc_padlen \in PadLens, j \in Cuts :
          LET w == PollOf(First, clock, sc_padlen, j)
          IN /\ ib' = w.ib
             /\ a2b' = w.rd
             /\ b2a' = w.wr
             /\ data' = PairData(OtherAfter(data.second, w),
                                 PollOf(data.alone1, clock, sc_padlen, j), data.alone2)
    /\ UNCHANGED <<ob, clock, link, args>>

\* The second handshake is polled.
PairPollSecond ==
    /\ data.kind = "Pair"
    /\ data.second.ib.res = "Pending"
    /\ \E sc_padlen \in PadLens, j \in Cuts :
          LET w == PollOf(data.second, clock, sc_padlen, j)
              o == OtherAfter(First, w)
          IN /\ ib' = o.ib
             /\ a2b' = o.rd
             /\ b2a' = o.wr
             /\ data' = PairData(w, data.alone1, PollOf(data.alone2, clock, sc_padlen, j))
    /\ UNCHANGED <<ob, clock, link, args>>

\* The peer of the first handshake sends its SessionConfirmed.
PairConfirmFirst ==
    /\ data.kind = "Pair"
    /\ AwaitsConfirmed(First)
    /\ a2b' = PeerConfirms(First).rd
    /\ data' = PairData(data.second, PeerConfirms(data.alone1), data.alone2)
    /\ UNCHANGED <<ib, ob, b2a, clock, link, args>>

\* The peer of the second handshake sends its SessionConfirmed.
PairConfirmSecond ==
    /\ data.kind = "Pair"
    /\ AwaitsConfirmed(data.second)
    /\ data' = PairData(PeerConfirms(data.second), data.alone1, PeerConfirms(data.alone2))
    /\ UNCHANGED hsvars

\* The wall clock both handshakes read is set.
PairClockSet ==
    /\ data.kind = "Pair"
    /\ ib.res = "Pending" \/ data.second.ib.res = "Pending"
    /\ \E t \in ClockValues \ {clock} : clock' = t
    /\ UNCHANGED <<ib, ob, a2b, b2a, link, args, data>>

PairNext ==
    \/ PairPollFirst
    \/ PairPollSecond
    \/ PairConfirmFirst
    \/ PairConfirmSecond
    \/ PairClockSet

PairSpec == PairInit /\ [][PairNext]_vars

Threads == 1..MaxThreads

\* Hashes: the keys DatabaseStore messages carry and the senders.
RouterKeys == {"h1", "h2"}

\* The inbound messages: a DatabaseStore of a RouterInfo or of a LeaseSet
\* under a key, and a message with another payload.
Messages ==
    {[payload |-> "DatabaseStore", data |-> d, key |-> k] : d \in {"RI", "LS"}, k \in RouterKeys}
        \cup {[payload |-> "DeliveryStatus", data |-> "none", key |-> "none"]}

NoMessage == [payload |-> "none", data |-> "none", key |-> "none"]

\* A thread of the router: where it is in handle ("idle": not in a call,
\* "write": before netdb.write(), "store": holding the write guard,
\* "panicked": the call has unwound), the arguments of its last call, how
\* that call ended, how many store calls it made and whether it took the
\* write guard.
IdleThread ==
    [pc |-> "idle", from |-> "none", msg |-> NoMessage, res |-> "none", stores |-> 0,
     locked |-> FALSE]

\* The method handle calls for a DatabaseStore payload.
StoreOp(msg) == IF msg.data = "RI" THEN "store_router_info" ELSE "store_lease_set"

\* The database after a store that succeeded.
Stored(netdb, msg) ==
    IF msg.data = "RI" THEN [netdb EXCEPT !.ri[msg.key] = "ri"]
    ELSE [netdb EXCEPT !.ls[msg.key] = "ls"]

\* The RwLock around the network database: the thread that holds the write
\* guard (0: none) and whether a holder has panicked.
FreeLock == [writer |-> 0, poisoned |-> FALSE]

\* The router: the lock, the database, the threads, the number of calls of
\* handle so far, and the store calls made on the database in order, each
\* with the thread that made it and the holder of the write guard then.
RouterData(lock, netdb, th, calls, log) ==
    [kind |-> "Router", lock |-> lock, netdb |-> netdb, th |-> th, calls |-> calls, log |-> log]

RouterInit ==
    /\ ib = IBHandshakeNew
    /\ ob = NoOBHandshake
    /\ a2b = EmptyStream
    /\ b2a = EmptyStream
    /\ clock = 0
    /\ link = "None"
    /\ args = NoArgs
    /\ data = RouterData(FreeLock,
                         [ri |-> [k \in RouterKeys |-> "none"], ls |-> [k \in RouterKeys |-> "none"]],
                         [t \in Threads |-> IdleThread], 0, <<>>)

\* handle(from, msg) is called on thread t and matches the payload: a
\* DatabaseStore goes on to netdb.write(); any other payload is logged and
\* the call returns.
HandleCall(t) ==
    /\ data.kind = "Router"
    /\ data.th[t].pc = "idle"
    /\ data.calls < MaxCalls
    /\ \E from \in RouterKeys, msg \in Messages :
          LET th == IF msg.payload = "DatabaseStore"
                    THEN [IdleThread EXCEPT !.pc = "write", !.from = from, !.msg = msg]
                    ELSE [IdleThread EXCEPT !.from = from, !.msg = msg, !.res = "Returned"]
          IN data' = [data EXCEPT !.th[t] = th, !.calls = @ + 1]
    /\ UNCHANGED hsvars

\* netdb.write().unwrap() on thread t: it waits while another thread holds
\* the guard; on a poisoned lock write() returns Err and unwrap panics.
HandleWrite(t) ==
    /\ data.kind = "Router"
    /\ data.th[t].pc = "write"
    /\ data.lock.writer = 0
    /\ data' = IF data.lock.poisoned
               THEN [data EXCEPT !.th[t].pc = "panicked", !.th[t].res = "PanicPoisoned"]
               ELSE [data EXCEPT !.th[t].pc = "store", !.th[t].locked = TRUE, !.lock.writer = t]
    /\ UNCHANGED hsvars

\* store_router_info(ds.key, ri) or store_lease_set(ds.key, ls) on thread t
\* and the end of the statement: on Ok the guard is dropped and handle
\* returns; on a storage error expect panics and the guard, dropped while
\* the thread unwinds, poisons the lock.
HandleStore(t) ==
    /\ data.kind = "Router"
    /\ data.th[t].pc = "store"
    /\ \E ok \in BOOLEAN :
          LET msg == data.th[t].msg
              call == [op |-> StoreOp(msg), key |-> msg.key, from |-> data.th[t].from,
                       data |-> msg.data, t |-> t, holder |-> data.lock.writer]
          IN data' = IF ok
                     THEN [data EXCEPT !.netdb = Stored(@, msg),
                                       !.lock.writer = 0,
                                       !.th[t].pc = "idle", !.th[t].res = "Returned",
                                       !.th[t].stores = @ + 1,
                                       !.log = Append(@, call)]
                     ELSE [data EXCEPT !.lock = [writer |-> 0, poisoned |-> TRUE],
                                       !.th[t].pc = "panicked", !.th[t].res = "PanicStore",
                                       !.th[t].stores = @ + 1,
                                       !.log = Append(@, call)]
    /\ UNCHANGED hsvars

RouterNext ==
    \/ \E t \in Threads : HandleCall(t)
    \/ \E t \in Threads : HandleWrite(t)
    \/ \E t \in Threads : HandleStore(t)

RouterSpec == RouterInit /\ [][RouterNext]_vars

\* A call of handle on thread t has ended, by return or by a panic.
Ended(t) == data.th[t].pc \in {"idle", "panicked"} /\ data.th[t].res # "none"

\* C31: handle touches the network database only for DatabaseStore
\* messages: a call with a RouterInfo payload makes exactly one
\* store_router_info and one with a LeaseSet payload exactly one
\* store_lease_set, under the write guard and with the key of the message;
\* a call with any other payload makes no store and does not take the lock.
C31_StoresOnlyForDatabaseStore ==
    data.kind = "Router" =>
        /\ \A i \in 1..Len(data.log) :
              /\ data.log[i].holder = data.log[i].t
              /\ data.log[i].op = IF data.log[i].data = "RI" THEN "store_router_info"
                                  ELSE "store_lease_set"
        /\ \A t \in Threads :
              Ended(t) =>
                  IF data.th[t].msg.payload = "DatabaseStore"
                  THEN data.th[t].stores = 1 /\ data.th[t].locked
                  ELSE data.th[t].stores = 0 /\ ~data.th[t].locked

\* C32: a storage error of store_router_info or store_lease_set stays in
\* the call it happened in: the lock is usable afterwards, and no later call
\* of handle fails to take the write guard.
C32_StorageErrorContained ==
    data.kind = "Router" =>
        /\ ~data.lock.poisoned
        /\ \A t \in Threads : data.th[t].res # "PanicPoisoned"

\* ------------------------------------------------- the loops of to_bytes

\* A retry that leaves the buffer as it is: what C33 rules out.
ExtendNothing(buflen, sz, base_len) == buflen

\* buf.extend(repeat(0).take(sz - base_len)): the length of the buffer
\* after it.
Extend(buflen, sz, base_len) == buflen + (sz - base_len)

\* The four functions with the loop, each with its base_len.
LoopFns ==
    {[fn |-> "RouterIdentity::to_bytes", base_len |-> RID_BASE_LEN],
     [fn |-> "RouterSecretKeys::to_bytes", base_len |-> RID_BASE_LEN],
     [fn |-> "RouterInfo::to_bytes", base_len |-> RI_BASE_LEN],
     [fn |-> "RouterInfo::signature_bytes", base_len |-> SIG_BASE_LEN]}

\* The values a function is called on.
LoopValues(f) ==
    IF f.fn \in {"RouterIdentity::to_bytes", "RouterSecretKeys::to_bytes"}
    THEN WireRouterIdentities
    ELSE WireRouterInfos

\* gen of RouterSecretKeys, piece by piece: the identity, the 256-byte
\* private key, the signing private key (20 bytes for DSA, 32 otherwise).
SecretKeysChunks(rid) ==
    RouterIdentityChunks(rid)
        \o <<Fill(PubKeyLen, 7),
              Fill(IF rid.signing_key.sig_type = "DsaSha1" THEN 20 ELSE 32, 7)>>

\* The pieces the generator of the function writes for the value.
LoopChunks(f, x) ==
    CASE f.fn = "RouterIdentity::to_bytes" -> RouterIdentityChunks(x)
      [] f.fn = "RouterSecretKeys::to_bytes" -> SecretKeysChunks(x)
      [] f.fn = "RouterInfo::to_bytes" -> RouterInfoChunks(x)
      [] OTHER -> RouterInfoMinusSigChunks(x)

\* A call of one of the functions: the value, the length of buf, what the
\* last turn of the loop got from the generator (r, sz), the turns taken
\* and, once it has returned, the buffer returned.
LoopData(f, x, buflen, r, sz, turns, out) ==
    [kind |-> "Loop", f |-> f, x |-> x, buflen |-> buflen, r |-> r, sz |-> sz,
     turns |-> turns, out |-> out]

LoopInit ==
    /\ ib = IBHandshakeNew
    /\ ob = NoOBHandshake
    /\ a2b = EmptyStream
    /\ b2a = EmptyStream
    /\ clock = 0
    /\ link = "None"
    /\ args = NoArgs
    /\ \E f \in LoopFns : \E x \in LoopValues(f) :
          data = LoopData(f, x, f.base_len, "none", 0, 0, <<>>)

\* One turn of the loop: the generator runs over buf; on Ok(sz) buf is
\* truncated to sz and returned; on BufferTooSmall(sz) buf is extended by
\* sz - base_len, a subtraction in usize that aborts the call when sz is
\* less than base_len.
LoopTurn ==
    /\ data.kind = "Loop"
    /\ data.r \in {"none", "BufferTooSmall"}
    /\ LET g == GenAt(LoopChunks(data.f, data.x), 0, data.buflen)
       IN data' =
            IF g.r = "Ok"
            THEN [data EXCEPT !.r = "Ok", !.sz = g.sz, !.turns = @ + 1, !.buflen = g.sz,
                              !.out = SubSeq(Flatten(LoopChunks(data.f, data.x))
                                                \o Fill(data.buflen - g.sz, 0), 1, g.sz)]
            ELSE IF g.sz < data.f.base_len
            THEN [data EXCEPT !.r = "PanicUnderflow", !.sz = g.sz, !.turns = @ + 1]
            ELSE [data EXCEPT !.r = "BufferTooSmall", !.sz = g.sz, !.turns = @ + 1,
                              !.buflen = Extend(@, g.sz, data.f.base_len)]
    /\ UNCHANGED hsvars

LoopNext == LoopTurn

\* The loop runs as long as it can take a turn.
LoopSpec == LoopInit /\ [][LoopNext]_vars /\ WF_vars(LoopTurn)

\* The serialized length of the value of the call.
LoopTotal == Len(Flatten(LoopChunks(data.f, data.x)))

\* C33: the loops of the four functions terminate for every value: at
\* BufferTooSmall(sz), sz is more than the length of the buffer and not less
\* than base_len, so the retry makes the buffer longer and at least sz
\* bytes long; the loop returns, and the buffer returned is cut to the size
\* the generator reported, which is the serialized length of the value.
C33_LoopsTerminate ==
    /\ <>(data.r = "Ok")
    /\ [](/\ data.r # "PanicUnderflow"
          /\ data.r = "Ok" =>
                /\ Len(data.out) = data.sz
                /\ data.sz = LoopTotal
                /\ data.out = Flatten(LoopChunks(data.f, data.x))
                /\ data.out = ToBytes(LoopChunks(data.f, data.x), data.f.base_len,
                                      data.f.base_len))
    /\ [][data'.r = "BufferTooSmall" =>
            /\ data'.sz > data.buflen
            /\ data'.sz >= data.f.base_len
            /\ data'.buflen > data.buflen
            /\ data'.buflen >= data'.sz]_vars

C33_Witness ==
    /\ data.kind = "Loop"
    /\ data.r = "Ok"
    /\ data.f.fn = "RouterInfo::to_bytes"
    /\ data.turns >= 3
    /\ Len(data.out) = LoopTotal
    /\ LoopTotal > data.f.base_len

====
